---- MODULE Spec2Model ----
(***************************************************************************)
(* AvtoBot: a Telegram bot that parses car listings (Avito, Drom), scores  *)
(* them, estimates the paint condition from the photos, and a              *)
(* DatabaseManager that stores listings and finds comparable ones.         *)
(*                                                                         *)
(* Text is modelled as sequences of one-character strings, so that         *)
(* substring search, LIKE patterns, whitespace splitting and digit tests   *)
(* are computed as the code computes them.  Cyrillic literals of the       *)
(* source are written in Latin transliteration.                            *)
(***************************************************************************)
EXTENDS Integers, Sequences, FiniteSets, TLC

VARIABLES
    car_ads,    \* database.py: rows of table car_ads (a set of records)
    db_call,    \* the DatabaseManager call in progress and its arguments
    db_ret,     \* what that call returns to its caller
    db_err,     \* whether that call went through its except branch
    paint_call, \* bot.py: the PaintAnalyzer call in progress and its argument
    paint_ret,  \* what analyze_paint_from_urls returns
    paint_seen, \* the images analyze_single_image was called for
    bot_call,     \* bot.py: the link handler in progress, its link, what
                  \* requests.get answered and how the image hosts answer
    bot_ad_data,  \* ad_data of that handler: what its parser returned
    bot_analysis, \* analysis of that handler, paint_analysis included
    bot_chat,     \* the calls the handler made on the chat, oldest first
    run_pc,       \* bot.py: where SimpleAvitoBot.run stands
    attempt,      \* attempt of its for loop
    retry_delay,  \* retry_delay of run, in seconds
    run_slept,    \* the arguments of the time.sleep calls run made, oldest first
    run_updates   \* for each polling attempt run started, the updates it took

dbVars == <<car_ads, db_call, db_ret, db_err>>
paintVars == <<paint_call, paint_ret, paint_seen>>
botVars == <<bot_call, bot_ad_data, bot_analysis, bot_chat>>
runVars == <<run_pc, attempt, retry_delay, run_slept, run_updates>>
vars == <<dbVars, paintVars, botVars, runVars>>

---------------------------------------------------------------------------
(* Text helpers *)

\* A string literal as a sequence of characters.
Chars(s) == [i \in 1..Len(s) |-> SubSeq(s, i, i)]

UpperLetters == Chars("ABCDEFGHIJKLMNOPQRSTUVWXYZ")
LowerLetters == Chars("abcdefghijklmnopqrstuvwxyz")
UpperSet == {UpperLetters[i] : i \in 1..26}
LowerOf == [c \in UpperSet |-> LowerLetters[CHOOSE i \in 1..26 : UpperLetters[i] = c]]

\* str.lower() on one character / on a text (also what ILIKE does to both sides).
LowerChar(c) == IF c \in UpperSet THEN LowerOf[c] ELSE c

Lower(s) == [i \in 1..Len(s) |-> LowerChar(s[i])]

\* Python's  sub in s  for texts.
IsSubstring(sub, s) ==
    \E i \in 0..(Len(s) - Len(sub)) : SubSeq(s, i + 1, i + Len(sub)) = sub

\* Python None / SQL NULL is the empty tuple; a present value v is <<v>>.
None == <<>>
Some(v) == <<v>>
IsNone(x) == x = <<>>
Val(x) == x[1]

\* min of a non-empty set of integers
Min(S) == CHOOSE x \in S : \A y \in S : x <= y

\* dict.get(key): None when the key is absent.
Get(d, k) == IF k \in DOMAIN d THEN Some(d[k]) ELSE None

\* dict.get(key, default)
GetOr(d, k, default) == IF k \in DOMAIN d THEN d[k] ELSE default

\* Whitespace as str.split() and the regex class \s see it.
IsSpace(c) == c \in {" ", "\n"}

\* Length of the prefix of s before its first whitespace character.
WordLen(s) ==
    IF \E i \in 1..Len(s) : IsSpace(s[i])
    THEN Min({i \in 1..Len(s) : IsSpace(s[i])}) - 1
    ELSE Len(s)

\* str.split() without arguments: the whitespace-delimited tokens.
RECURSIVE Split(_)
Split(s) ==
    IF s = <<>> THEN <<>>
    ELSE IF IsSpace(s[1]) THEN Split(Tail(s))
    ELSE <<SubSeq(s, 1, WordLen(s))>> \o Split(SubSeq(s, WordLen(s) + 1, Len(s)))

---------------------------------------------------------------------------
(* database.py: DatabaseManager *)

\* Number of distinct ad identifiers in the model.
MaxAds == 3
\* Largest limit passed to find_similar_ads.
MaxLimit == 2

AdIds == 1..MaxAds

\* The known-model list of _extract_model.
models == <<Chars("golf"), Chars("passat"), Chars("polo"),
            Chars("jetta"), Chars("tiguan"), Chars("touran")>>

\* _extract_model returning the known model that stands first in the title.
_extract_model_FirstInTitle(title) ==
    IF IsNone(title) \/ Val(title) = <<>> THEN <<>>
    ELSE LET title_lower == Lower(Val(title))
             at(i) == Min({k \in 0..(Len(title_lower) - Len(models[i])) :
                             SubSeq(title_lower, k + 1, k + Len(models[i])) = models[i]})
             hits == {i \in 1..Len(models) : IsSubstring(models[i], title_lower)}
             words == Split(Val(title))
         IN  IF hits # {} THEN models[CHOOSE i \in hits : \A j \in hits : at(i) <= at(j)]
             ELSE IF Len(words) > 1 THEN words[2] ELSE <<>>

\* DatabaseManager._extract_model; title is None or Some(text).
_extract_model(title) ==
    IF IsNone(title) \/ Val(title) = <<>> THEN <<>>
    ELSE LET title_lower == Lower(Val(title))
             hits == {i \in 1..Len(models) : IsSubstring(models[i], title_lower)}
             words == Split(Val(title))
         IN  IF hits # {} THEN models[Min(hits)]
             ELSE IF Len(words) > 1 THEN words[2] ELSE <<>>

\* PostgreSQL  s LIKE p : % is any run of characters, _ any one character,
\* backslash makes the next pattern character literal.
RECURSIVE LikeMatch(_, _)
LikeMatch(s, p) ==
    IF p = <<>> THEN s = <<>>
    ELSE IF p[1] = "%"
         THEN LikeMatch(s, Tail(p)) \/ (s # <<>> /\ LikeMatch(Tail(s), p))
    ELSE IF p[1] = "\\"
         THEN Len(p) >= 2 /\ s # <<>> /\ s[1] = p[2]
              /\ LikeMatch(Tail(s), Tail(Tail(p)))
    ELSE IF p[1] = "_"
         THEN s # <<>> /\ LikeMatch(Tail(s), Tail(p))
    ELSE s # <<>> /\ s[1] = p[1] /\ LikeMatch(Tail(s), Tail(p))

\* s ILIKE p
ILike(s, p) == LikeMatch(Lower(s), Lower(p))

\* The WHERE clause of find_similar_ads for one row.  A NULL column makes its
\* comparison NULL, which does not select the row.  price * 0.7 and
\* price * 1.3 are floats in the source; against an integer column they
\* select the same rows as the exact bounds 7*price/10 and 13*price/10.
SimilarWhere(row, model, year, price, id) ==
    /\ ~IsNone(row.title)
    /\ ILike(Val(row.title), <<"%">> \o model \o <<"%">>)
    /\ ~IsNone(row.year)
    /\ year - 2 <= Val(row.year) /\ Val(row.year) <= year + 2
    /\ ~IsNone(row.price)
    /\ 7 * price <= 10 * Val(row.price) /\ 10 * Val(row.price) <= 13 * price
    /\ row.id # id
    /\ row.is_active = Some(TRUE)

Abs(x) == IF x < 0 THEN -x ELSE x

\* The ordering without NULLS LAST: PostgreSQL then puts NULL scores first in
\* a descending sort.
SimilarBefore_NullsFirst(a, b, price) ==
    \/ IsNone(a.overall_score) /\ ~IsNone(b.overall_score)
    \/ /\ ~IsNone(a.overall_score) /\ ~IsNone(b.overall_score)
       /\ Val(a.overall_score) > Val(b.overall_score)
    \/ /\ a.overall_score = b.overall_score
       /\ Abs(Val(a.price) - price) < Abs(Val(b.price) - price)

\* ORDER BY overall_score DESC NULLS LAST, ABS(price - %s) ASC :
\* a sorts strictly before b.
SimilarBefore(a, b, price) ==
    \/ ~IsNone(a.overall_score) /\ IsNone(b.overall_score)
    \/ /\ ~IsNone(a.overall_score) /\ ~IsNone(b.overall_score)
       /\ Val(a.overall_score) > Val(b.overall_score)
    \/ /\ a.overall_score = b.overall_score
       /\ Abs(Val(a.price) - price) < Abs(Val(b.price) - price)

\* Every order the ORDER BY allows for the rows M (rows that tie may come in
\* either order).
RECURSIVE OrderedBy(_, _)
OrderedBy(M, price) ==
    IF M = {} THEN {<<>>}
    ELSE UNION { { <<r>> \o s : s \in OrderedBy(M \ {r}, price) } :
                 r \in {x \in M : \A y \in M : ~SimilarBefore(y, x, price)} }

\* LIMIT n
SqlLimit(rows, n) == SubSeq(rows, 1, IF n < Len(rows) THEN n ELSE Len(rows))

\* The result sets the query of find_similar_ads may return.
SimilarQuery(table, original_ad, limit) ==
    LET model == _extract_model(Some(original_ad.title))
        year  == GetOr(original_ad, "year", 0)
        price == GetOr(original_ad, "price", 0)
        M     == {r \in table : SimilarWhere(r, model, year, price, original_ad.id)}
    IN  { SqlLimit(s, limit) : s \in OrderedBy(M, price) }

\* DatabaseManager.find_similar_ads: the lists it may return.  When the store
\* is unavailable the query raises, the except branch logs and returns [].
find_similar_ads(table, original_ad, limit, store_up) ==
    IF store_up
    THEN { [rows |-> s, err |-> FALSE] : s \in SimilarQuery(table, original_ad, limit) }
    ELSE { [rows |-> <<>>, err |-> TRUE] }

\* The row INSERTed by save_car_ad.
InsertedRow(ad_data) ==
    [ id |-> ad_data.id,
      source_platform |-> ad_data.source_platform,
      url |-> ad_data.url,
      title |-> Get(ad_data, "title"),
      price |-> Get(ad_data, "price"),
      year |-> Get(ad_data, "year"),
      mileage |-> Get(ad_data, "mileage"),
      region |-> Get(ad_data, "region"),
      city |-> Get(ad_data, "city"),
      image_urls |-> GetOr(ad_data, "image_urls", <<>>),
      overall_score |-> Get(ad_data, "overall_score"),
      is_active |-> Some(GetOr(ad_data, "is_active", TRUE)) ]

\* The row after save_car_ad's UPDATE: source_platform and url are kept.
UpdatedRow(row, ad_data) ==
    [ InsertedRow([source_platform |-> row.source_platform, url |-> row.url] @@ ad_data)
      EXCEPT !.source_platform = row.source_platform, !.url = row.url ]

\* save_car_ad without the SELECT that looks for the record: every save
\* INSERTs, on a table without the primary key.
save_car_ad_AlwaysInsert(table, ad_data, store_up) ==
    IF ~store_up THEN [car_ads |-> table, err |-> TRUE]
    ELSE IF ~({"source_platform", "url"} \subseteq DOMAIN ad_data)
    THEN [car_ads |-> table, err |-> TRUE]
    ELSE [car_ads |-> table \cup {InsertedRow(ad_data)}, err |-> FALSE]

\* DatabaseManager.save_car_ad: the table afterwards and whether the except
\* branch (log, rollback) ran.
save_car_ad(table, ad_data, store_up) ==
    IF ~store_up THEN [car_ads |-> table, err |-> TRUE]
    ELSE IF \E r \in table : r.id = ad_data.id
    THEN [car_ads |-> {IF r.id = ad_data.id THEN UpdatedRow(r, ad_data) ELSE r : r \in table},
          err |-> FALSE]
    ELSE IF ~({"source_platform", "url"} \subseteq DOMAIN ad_data)
    THEN [car_ads |-> table, err |-> TRUE]
    ELSE [car_ads |-> table \cup {InsertedRow(ad_data)}, err |-> FALSE]

\* Listings offered to save_car_ad (without their id).
Listing(title, year, price, score, active) ==
    [source_platform |-> "avito", url |-> "u", title |-> title, year |-> year,
     price |-> price, overall_score |-> score, is_active |-> active]

ListingPool ==
    { Listing(Chars("GOLF 7"),  2016, 315000, 8, TRUE),
      Listing(Chars("VW Golf"), 2018, 450000, 8, TRUE),
      Listing(Chars("VW Golf"), 2021, 585001, 9, FALSE),
      Listing(Chars("Kia 50"),  2018, 450000, 5, TRUE),
      [source_platform |-> "avito", url |-> "u", title |-> Chars("golf"),
       year |-> 2020, price |-> 585000] }

\* Listings offered under the first identifier only: one found under another
\* link with every column filled, and one without 'source_platform'.
RelistedPool ==
    { [source_platform |-> "drom", url |-> "v", title |-> Chars("Lada Vesta"),
       year |-> 2012, price |-> 300000, mileage |-> 90000, region |-> Chars("Omsk"),
       city |-> Chars("Omsk"), image_urls |-> <<"a.jpg">>, overall_score |-> 4,
       is_active |-> TRUE],
      [url |-> "u", title |-> Chars("golf"), year |-> 2020, price |-> 585000] }

AdDataPool ==
    { [id |-> i] @@ l : i \in AdIds, l \in ListingPool }
    \cup { [id |-> 1] @@ l : l \in RelistedPool }

\* Target ads given to find_similar_ads: a listing that was never saved
\* (id 0) or the listing saved under id 1.
TargetPool ==
    { [id |-> i, title |-> t, year |-> 2018, price |-> 450000] :
        i \in {0, 1}, t \in {Chars("Golf 2018"), Chars("Kia 5%"), Chars("Lada")} }

---------------------------------------------------------------------------
(* bot.py: PaintAnalyzer *)

\* Longest image list given to analyze_paint_from_urls.
MaxImages == 4

\* An image URL is modelled by what requesting and decoding it gives: a
\* failure of one kind, or a picture with its four feature values
\* (analyze_color_uniformity, analyze_edges, analyze_texture in 0..100,
\* analyze_brightness in {40, 70, 90}).
Picture(c, e, t, b) ==
    [kind |-> "ok", color_uniformity |-> c, edge_quality |-> e,
     texture_smoothness |-> t, brightness_level |-> b]

FailureKinds ==
    {"request_error", "http_error", "decode_error", "small", "gray", "feature_error"}

ImagePool ==
    { Picture(100, 100, 100, 90), Picture(75, 75, 75, 90),
      Picture(60, 60, 60, 70), Picture(0, 0, 0, 40) }
    \cup { [kind |-> k] : k \in FailureKinds }

\* PaintAnalyzer.calculate_paint_score: the weights are 0.4, 0.3, 0.2, 0.1 and
\* int() truncates.
calculate_paint_score(color_uniformity, edge_quality, texture_smoothness, brightness_level) ==
    LET total10 == 4 * color_uniformity + 3 * edge_quality
                   + 2 * texture_smoothness + brightness_level
        truncated == total10 \div 10
    IN  IF truncated < 100 THEN truncated ELSE 100

\* PaintAnalyzer.analyze_image_features: the features and their score, or
\* {'score': 0} when a feature computation raises.
analyze_image_features(img) ==
    IF img.kind = "feature_error" THEN [score |-> 0]
    ELSE [score |-> calculate_paint_score(img.color_uniformity, img.edge_quality,
                                          img.texture_smoothness, img.brightness_level),
          color_uniformity |-> img.color_uniformity,
          edge_quality |-> img.edge_quality,
          texture_smoothness |-> img.texture_smoothness,
          brightness_level |-> img.brightness_level]

\* PaintAnalyzer.analyze_single_image: None when the request raises, the
\* status is not 200, the bytes do not decode, the picture is under 100
\* pixels on a side or is not three-channel.
analyze_single_image(img) ==
    IF img.kind \in {"request_error", "http_error", "decode_error", "small", "gray"}
    THEN None
    ELSE Some(analyze_image_features(img))

\* image_urls[:n]
Take(seq, n) == SubSeq(seq, 1, IF n < Len(seq) THEN n ELSE Len(seq))

\* The for loop of analyze_paint_from_urls with failed images kept as score 0.
RECURSIVE CollectAnalyses_KeepFailed(_)
CollectAnalyses_KeepFailed(urls) ==
    IF urls = <<>> THEN <<>>
    ELSE LET analysis == analyze_single_image(urls[1])
         IN  <<IF IsNone(analysis) THEN [score |-> 0] ELSE Val(analysis)>>
             \o CollectAnalyses_KeepFailed(Tail(urls))

\* The for loop of analyze_paint_from_urls left at the first image that
\* fails.
RECURSIVE CollectAnalyses_StopAtFailure(_)
CollectAnalyses_StopAtFailure(urls) ==
    IF urls = <<>> THEN <<>>
    ELSE LET analysis == analyze_single_image(urls[1])
         IN  IF ~IsNone(analysis) /\ Val(analysis).score > 0
             THEN <<Val(analysis)>> \o CollectAnalyses_StopAtFailure(Tail(urls))
             ELSE <<>>

\* The for loop of analyze_paint_from_urls over the images it is given: the
\* list  analyses.
RECURSIVE CollectAnalyses(_)
CollectAnalyses(urls) ==
    IF urls = <<>> THEN <<>>
    ELSE LET analysis == analyze_single_image(urls[1])
         IN  (IF ~IsNone(analysis) /\ Val(analysis).score > 0
              THEN <<Val(analysis)>> ELSE <<>>)
             \o CollectAnalyses(Tail(urls))

\* sum(analysis['score'] for analysis in analyses)
RECURSIVE SumScores(_)
SumScores(analyses) ==
    IF analyses = <<>> THEN 0 ELSE analyses[1].score + SumScores(Tail(analyses))

\* aggregate_analyses choosing the label by the average rounded to the
\* nearest integer while the score is truncated.
aggregate_analyses_LabelByRounded(analyses, count) ==
    IF analyses = <<>> THEN [score |-> 0, message |-> <<"no data">>]
    ELSE LET total_score == SumScores(analyses)
             n == Len(analyses)
             rounded == (2 * total_score + n) \div (2 * n)
             label == IF rounded >= 80 THEN <<"otlichnoe", "palette">>
                      ELSE IF rounded >= 60 THEN <<"khoroshee", "check">>
                      ELSE IF rounded >= 40 THEN <<"udovletvoritelnoe", "warning">>
                      ELSE <<"trebuet vnimaniya", "wrench">>
         IN  [score |-> total_score \div n,
              condition |-> label[1],
              emoji |-> label[2],
              analyzed_images |-> count,
              message |-> <<"analyzed", count>>]

\* PaintAnalyzer.aggregate_analyses.  avg_score = total / len is compared with
\* 80, 60, 40 and truncated by int().
aggregate_analyses(analyses, count) ==
    IF analyses = <<>> THEN [score |-> 0, message |-> <<"no data">>]
    ELSE LET total_score == SumScores(analyses)
             n == Len(analyses)
             label == IF total_score >= 80 * n THEN <<"otlichnoe", "palette">>
                      ELSE IF total_score >= 60 * n THEN <<"khoroshee", "check">>
                      ELSE IF total_score >= 40 * n THEN <<"udovletvoritelnoe", "warning">>
                      ELSE <<"trebuet vnimaniya", "wrench">>
         IN  [score |-> total_score \div n,
              condition |-> label[1],
              emoji |-> label[2],
              analyzed_images |-> count,
              message |-> <<"analyzed", count>>]

\* Config.MAX_IMAGES_TO_ANALYZE of config.py, which bot.py does not read.
MAX_IMAGES_TO_ANALYZE == 5

\* analyze_paint_from_urls taking Config.MAX_IMAGES_TO_ANALYZE images.
analyze_paint_from_urls_ConfigCap(image_urls) ==
    IF image_urls = <<>> THEN [error |-> "no images", score |-> 0]
    ELSE LET analyses == CollectAnalyses(Take(image_urls, MAX_IMAGES_TO_ANALYZE))
             analyzed_count == Len(analyses)
         IN  IF analyses = <<>> THEN [error |-> "not analyzed", score |-> 0]
             ELSE aggregate_analyses(analyses, analyzed_count)

\* analyze_paint_from_urls that aggregates whatever the loop collected.
analyze_paint_from_urls_NoCheck(image_urls) ==
    IF image_urls = <<>> THEN [error |-> "no images", score |-> 0]
    ELSE LET analyses == CollectAnalyses(Take(image_urls, 3))
         IN  aggregate_analyses(analyses, Len(analyses))

\* PaintAnalyzer.analyze_paint_from_urls.
analyze_paint_from_urls(image_urls) ==
    IF image_urls = <<>> THEN [error |-> "no images", score |-> 0]
    ELSE LET analyses == CollectAnalyses(Take(image_urls, 3))
             analyzed_count == Len(analyses)
         IN  IF analyses = <<>> THEN [error |-> "not analyzed", score |-> 0]
             ELSE aggregate_analyses(analyses, analyzed_count)

\* All lists of at most n elements of S.
SeqsUpTo(S, n) == UNION { [1..k -> S] : k \in 0..n }

---------------------------------------------------------------------------
(* bot.py: text, numbers and exceptions as Python and re treat them *)

\* A call either returns a value or raises.
Ok(v) == [exc |-> FALSE, val |-> v]
Raised == [exc |-> TRUE]

\* try: body  except: return default
Catch(r, default) == IF r.exc THEN Ok(default) ELSE r

Digits == Chars("0123456789")
DigitSet == {Digits[i] : i \in 1..10}
DigitVal == [c \in DigitSet |-> (CHOOSE i \in 1..10 : Digits[i] = c) - 1]

\* Characters that stand for non-ASCII ones of real pages: SUP2 is the
\* superscript two (str.isdigit() accepts it, int() and \d do not), RUB the
\* rouble sign, and "\n" any whitespace that is not the plain space.
SUP2 == "^"
RUB == "#"

\* \d of the re module, and a digit int() accepts
IsDigitChar(c) == c \in DigitSet

\* str.isdigit()
IsDigitStr(s) == s # <<>> /\ \A i \in 1..Len(s) : s[i] \in DigitSet \cup {SUP2}

\* The number written by a non-empty run of decimal digits.
RECURSIVE DigitsValue(_)
DigitsValue(s) ==
    IF s = <<>> THEN 0
    ELSE 10 * DigitsValue(SubSeq(s, 1, Len(s) - 1)) + DigitVal[s[Len(s)]]

\* str.strip()
RECURSIVE Strip(_)
Strip(s) ==
    IF s = <<>> THEN s
    ELSE IF IsSpace(s[1]) THEN Strip(Tail(s))
    ELSE IF IsSpace(s[Len(s)]) THEN Strip(SubSeq(s, 1, Len(s) - 1))
    ELSE s

\* int(text): surrounding whitespace and one sign are accepted, then decimal
\* digits only (the texts of the model hold no underscores); anything else
\* raises ValueError.
IntOfStr(s) ==
    LET t == Strip(s)
        signed == t # <<>> /\ t[1] \in {"-", "+"}
        body == IF signed THEN Tail(t) ELSE t
    IN  IF body # <<>> /\ \A i \in 1..Len(body) : IsDigitChar(body[i])
        THEN Ok(IF signed /\ t[1] = "-" THEN -DigitsValue(body) ELSE DigitsValue(body))
        ELSE Raised

\* text.replace(' ', '')
RemoveSpaces(s) == SelectSeq(s, LAMBDA c : c # " ")

\* Index of the last character of the longest run of digits of s that starts
\* at index i (i - 1 when s[i] is not a digit): the greedy \d* of re.
RECURSIVE DigitRunEnd(_, _)
DigitRunEnd(s, i) ==
    IF i <= Len(s) /\ IsDigitChar(s[i]) THEN DigitRunEnd(s, i + 1) ELSE i - 1

\* re.findall(r'\d+', s): the maximal digit runs, left to right.
RECURSIVE FindAllDigits(_)
FindAllDigits(s) ==
    IF s = <<>> THEN <<>>
    ELSE IF IsDigitChar(s[1])
         THEN LET e == DigitRunEnd(s, 1)
              IN  <<SubSeq(s, 1, e)>> \o FindAllDigits(SubSeq(s, e + 1, Len(s)))
    ELSE FindAllDigits(Tail(s))

\* ''.join(parts)
RECURSIVE Join(_)
Join(parts) == IF parts = <<>> THEN <<>> ELSE parts[1] \o Join(Tail(parts))

\* s.startswith(prefix)
StartsWith(s, prefix) == Len(s) >= Len(prefix) /\ SubSeq(s, 1, Len(prefix)) = prefix

\* Whether the literal lit stands in s at index i.
LitAt(s, i, lit) ==
    i >= 1 /\ i + Len(lit) - 1 <= Len(s) /\ SubSeq(s, i, i + Len(lit) - 1) = lit

\* Whether the literal lit stands in s at index i, letters compared without
\* case (re.IGNORECASE).
MatchAt(s, i, lit) ==
    /\ i >= 1
    /\ i + Len(lit) - 1 <= Len(s)
    /\ Lower(SubSeq(s, i, i + Len(lit) - 1)) = Lower(lit)

---------------------------------------------------------------------------
(* bot.py: the parsed page (BeautifulSoup) and the page text *)

\* An element: tag, attributes in source order as <<name, value>> pairs, its
\* text, and the class of the element that encloses it (<<>> when the
\* selectors of the bot do not look at its ancestors).
El(tag, attrs, text) == [tag |-> tag, attrs |-> attrs, text |-> Chars(text), anc |-> <<>>]
ElIn(anc, tag, attrs, text) ==
    [tag |-> tag, attrs |-> attrs, text |-> Chars(text), anc |-> Chars(anc)]
At(name, value) == <<name, Chars(value)>>

\* element.get(name): the attribute's value or None
Attr(el, name) ==
    LET hits == {i \in 1..Len(el.attrs) : el.attrs[i][1] = name}
    IN  IF hits = {} THEN None ELSE Some(el.attrs[Min(hits)][2])

\* Python truthiness of element.get(name): present and not empty
AttrTruthy(el, name) == ~IsNone(Attr(el, name)) /\ Val(Attr(el, name)) # <<>>

\* element.get_text(strip=True) of an element without child elements
get_text_strip(el) == Strip(el.text)

\* Tags written without an end tag.
VoidTags == {"meta", "img"}

RECURSIVE HtmlAttrs(_)
HtmlAttrs(attrs) ==
    IF attrs = <<>> THEN <<>>
    ELSE <<" ">> \o Chars(attrs[1][1]) \o Chars("=\"") \o attrs[1][2] \o <<"\"">>
         \o HtmlAttrs(Tail(attrs))

\* The markup of one element as it stands in response.text.
Html(el) ==
    LET open == <<"<">> \o Chars(el.tag) \o HtmlAttrs(el.attrs) \o <<">">>
        self == IF el.tag \in VoidTags THEN open
                ELSE open \o el.text \o Chars("</") \o Chars(el.tag) \o <<">">>
    IN  IF el.anc = <<>> THEN self
        ELSE Chars("<div class=\"") \o el.anc \o Chars("\">") \o self \o Chars("</div>")

RECURSIVE HtmlAll(_)
HtmlAll(els) == IF els = <<>> THEN <<>> ELSE Html(els[1]) \o HtmlAll(Tail(els))

\* A CSS selector of the bot: an optional tag, an optional class, an optional
\* attribute test (op "=" equal, "*=" contains, "has" present) and an
\* optional class of an ancestor.  "" stands for an absent part.
Sel(tag, cls, attr, op, value, anc) ==
    [tag |-> tag, cls |-> Chars(cls), attr |-> attr, op |-> op,
     value |-> Chars(value), anc |-> Chars(anc)]

\* x in seq
InSeq(x, seq) == \E i \in 1..Len(seq) : seq[i] = x

HasClass(classAttr, cls) == ~IsNone(classAttr) /\ InSeq(cls, Split(Val(classAttr)))

SelMatches(el, sel) ==
    /\ sel.tag = "" \/ el.tag = sel.tag
    /\ sel.cls = <<>> \/ HasClass(Attr(el, "class"), sel.cls)
    /\ \/ sel.op = ""
       \/ sel.op = "has" /\ ~IsNone(Attr(el, sel.attr))
       \/ sel.op = "=" /\ Attr(el, sel.attr) = Some(sel.value)
       \/ sel.op = "*=" /\ ~IsNone(Attr(el, sel.attr))
                        /\ IsSubstring(sel.value, Val(Attr(el, sel.attr)))
    /\ sel.anc = <<>> \/ HasClass(Some(el.anc), sel.anc)

\* soup.select(selector): the matching elements in document order
select(soup, sel) == SelectSeq(soup, LAMBDA el : SelMatches(el, sel))

\* soup.select_one(selector): the first of them, or None
FirstOf(found) == IF found = <<>> THEN None ELSE Some(found[1])
select_one(soup, sel) == FirstOf(select(soup, sel))

---------------------------------------------------------------------------
(* bot.py: json.loads and the Python operations applied to its result *)

\* Python values: dict (pairs in source order), list, str, int, float (by
\* its integer part, which is all int() keeps of it), bool and None.
PyDict(pairs) == [t |-> "dict", v |-> pairs]
PyList(items) == [t |-> "list", v |-> items]
PyStr(chars) == [t |-> "str", v |-> chars]
PyNum(n) == [t |-> "int", v |-> n]
PyFloat(n) == [t |-> "float", v |-> n]
PyBool(b) == [t |-> "bool", v |-> b]
PyNone == [t |-> "None", v |-> 0]

ParseFail == [ok |-> FALSE]
Parsed(val, next) == [ok |-> TRUE, val |-> val, next |-> next]

RECURSIVE SkipWs(_, _)
SkipWs(s, i) == IF i <= Len(s) /\ IsSpace(s[i]) THEN SkipWs(s, i + 1) ELSE i

\* A JSON string starting at the quote s[i] (the texts of the model hold no
\* escape sequences).
ParseString(s, i) ==
    LET ends == {j \in (i + 1)..Len(s) : s[j] = "\""}
    IN  IF ends = {} THEN ParseFail
        ELSE Parsed(SubSeq(s, i + 1, Min(ends) - 1), Min(ends) + 1)

\* A JSON number starting at s[i]: -? digits (. digits)?, without exponent.
ParseNumber(s, i) ==
    LET neg == s[i] = "-"
        d1 == IF neg THEN i + 1 ELSE i
        e1 == DigitRunEnd(s, d1)
        int_part == DigitsValue(SubSeq(s, d1, e1))
        signed == IF neg THEN -int_part ELSE int_part
        frac == e1 + 1 <= Len(s) /\ s[e1 + 1] = "."
        e2 == DigitRunEnd(s, e1 + 2)
    IN  IF e1 < d1 \/ (e1 > d1 /\ s[d1] = "0") THEN ParseFail
        ELSE IF ~frac THEN Parsed(PyNum(signed), e1 + 1)
        ELSE IF e2 < e1 + 2 THEN ParseFail
        ELSE Parsed(PyFloat(signed), e2 + 1)

RECURSIVE ParseValue(_, _)
RECURSIVE ParseMembers(_, _, _)
RECURSIVE ParseElements(_, _, _)

\* After a member or an item at index after: the closing character ends the
\* collection, a comma continues it at after + 1.
MembersNext(s, after, pairs) ==
    IF after > Len(s) THEN ParseFail
    ELSE IF s[after] = "}" THEN Parsed(PyDict(pairs), after + 1)
    ELSE IF s[after] = "," THEN ParseMembers(s, after + 1, pairs)
    ELSE ParseFail

MemberValue(s, key, value, acc) ==
    IF ~value.ok THEN ParseFail
    ELSE MembersNext(s, SkipWs(s, value.next), Append(acc, <<key, value.val>>))

MemberColon(s, key, colon, acc) ==
    IF colon <= Len(s) /\ s[colon] = ":"
    THEN MemberValue(s, key, ParseValue(s, colon + 1), acc)
    ELSE ParseFail

MemberKey(s, key, acc) ==
    IF ~key.ok THEN ParseFail ELSE MemberColon(s, key.val, SkipWs(s, key.next), acc)

MemberAt(s, i, acc) ==
    IF i <= Len(s) /\ s[i] = "\"" THEN MemberKey(s, ParseString(s, i), acc) ELSE ParseFail

\* "key": value pairs of an object up to its closing brace.
ParseMembers(s, i0, acc) == MemberAt(s, SkipWs(s, i0), acc)

ElementsNext(s, after, items) ==
    IF after > Len(s) THEN ParseFail
    ELSE IF s[after] = "]" THEN Parsed(PyList(items), after + 1)
    ELSE IF s[after] = "," THEN ParseElements(s, after + 1, items)
    ELSE ParseFail

ElementValue(s, value, acc) ==
    IF ~value.ok THEN ParseFail
    ELSE ElementsNext(s, SkipWs(s, value.next), Append(acc, value.val))

\* The items of an array up to its closing bracket.
ParseElements(s, i0, acc) == ElementValue(s, ParseValue(s, i0), acc)

\* An object or array whose first character after the opening one is s[j].
ObjectAt(s, j) ==
    IF j <= Len(s) /\ s[j] = "}" THEN Parsed(PyDict(<<>>), j + 1)
    ELSE ParseMembers(s, j, <<>>)

ArrayAt(s, j) ==
    IF j <= Len(s) /\ s[j] = "]" THEN Parsed(PyList(<<>>), j + 1)
    ELSE ParseElements(s, j, <<>>)

StringValue(r) == IF r.ok THEN Parsed(PyStr(r.val), r.next) ELSE ParseFail

\* The JSON value whose first character is s[i].
ValueAt(s, i) ==
    IF i > Len(s) THEN ParseFail
    ELSE IF s[i] = "{" THEN ObjectAt(s, SkipWs(s, i + 1))
    ELSE IF s[i] = "[" THEN ArrayAt(s, SkipWs(s, i + 1))
    ELSE IF s[i] = "\"" THEN StringValue(ParseString(s, i))
    ELSE IF s[i] = "-" \/ IsDigitChar(s[i]) THEN ParseNumber(s, i)
    ELSE IF LitAt(s, i, Chars("null")) THEN Parsed(PyNone, i + 4)
    ELSE IF LitAt(s, i, Chars("true")) THEN Parsed(PyBool(TRUE), i + 4)
    ELSE IF LitAt(s, i, Chars("false")) THEN Parsed(PyBool(FALSE), i + 5)
    ELSE ParseFail

\* The JSON value that starts at s[i0], leading whitespace skipped.
ParseValue(s, i0) == ValueAt(s, SkipWs(s, i0))

WholeDocument(text, r) ==
    IF r.ok /\ SkipWs(text, r.next) > Len(text) THEN Ok(r.val) ELSE Raised

\* json.loads(text): the value, or an exception when the text is not one
\* JSON document.
json_loads(text) == WholeDocument(text, ParseValue(text, 1))

\* key in container, for a str key
PyIn(key, container) ==
    CASE container.t = "dict" ->
            Ok(\E i \in 1..Len(container.v) : container.v[i][1] = key)
      [] container.t = "list" ->
            Ok(\E i \in 1..Len(container.v) : container.v[i] = PyStr(key))
      [] container.t = "str" -> Ok(IsSubstring(key, container.v))
      [] OTHER -> Raised

\* container[key], for a str key: only a dict can be indexed by it, and a
\* key written twice holds its last value
PyGetItem(container, key) ==
    LET hits == IF container.t = "dict"
                THEN {i \in 1..Len(container.v) : container.v[i][1] = key} ELSE {}
    IN  IF hits = {} THEN Raised
        ELSE Ok(container.v[CHOOSE i \in hits : \A j \in hits : j <= i][2])

\* int(value)
PyInt(value) ==
    CASE value.t \in {"int", "float"} -> Ok(value.v)
      [] value.t = "bool" -> Ok(IF value.v THEN 1 ELSE 0)
      [] value.t = "str" -> IntOfStr(value.v)
      [] OTHER -> Raised

---------------------------------------------------------------------------
(* bot.py: SimpleAvitoBot, titles and prices *)

\* Cyrillic text, written in Latin letters after a marker character so that
\* it stays different from the Latin text that transliterates it.
Cyr(latin) == <<"~">> \o Chars(latin)

NoSel(tag, cls) == Sel(tag, cls, "", "", "", "")
AttrSel(tag, attr, op, value) == Sel(tag, "", attr, op, value, "")

avito_title_selectors ==
    << AttrSel("h1", "data-marker", "=", "item-view/title"),
       NoSel("h1", "title-info-title"),
       NoSel("h1", ""),
       NoSel("", "title-info-title-text"),
       AttrSel("", "data-marker", "=", "item-view/title") >>

drom_title_selectors ==
    << AttrSel("h1", "class", "*=", "title"),
       NoSel("", "css-1tjirrw"),
       NoSel("h1", ""),
       AttrSel("", "data-ftid", "=", "component_ad_title") >>

\* element.get_text(strip=True) of the element select_one gave, the empty
\* text when it gave None
TextOf(element) == IF IsNone(element) THEN <<>> ELSE get_text_strip(Val(element))

\* The first entry of a list that is not empty, None when all are.
FirstNonEmpty(texts) ==
    LET hits == {k \in 1..Len(texts) : texts[k] # <<>>}
    IN  IF hits = {} THEN None ELSE Some(texts[Min(hits)])

\* The selector loops that return a text: the stripped text of the first
\* selector whose first element has one.
FirstText(soup, selectors) ==
    FirstNonEmpty([k \in 1..Len(selectors) |-> TextOf(select_one(soup, selectors[k]))])

\* What the title extractors return, given what the selector loop, the
\* og:title meta element and the title element gave.
title_pick(from_selectors, meta_title, page_title) ==
    IF ~IsNone(from_selectors) THEN Ok(Val(from_selectors))
    ELSE IF ~IsNone(meta_title) /\ AttrTruthy(Val(meta_title), "content")
         THEN Ok(Val(Attr(Val(meta_title), "content")))
    ELSE IF ~IsNone(page_title) THEN Ok(get_text_strip(Val(page_title)))
    ELSE Ok(Cyr("Neizvestnaya model"))

\* The body both title extractors run inside their try block.
title_body(soup, selectors) ==
    title_pick(FirstText(soup, selectors),
               select_one(soup, AttrSel("meta", "property", "=", "og:title")),
               select_one(soup, NoSel("title", "")))

extract_avito_title(soup) ==
    Catch(title_body(soup, avito_title_selectors), Cyr("Neizvestnaya model"))

extract_drom_title(soup) ==
    Catch(title_body(soup, drom_title_selectors), Cyr("Neizvestnaya model"))

avito_price_selectors ==
    << AttrSel("meta", "itemprop", "=", "price"),
       AttrSel("span", "data-marker", "=", "item-view/item-price"),
       AttrSel("", "data-marker", "=", "item-view/item-price"),
       NoSel("", "js-item-price"),
       NoSel("", "price-value") >>

drom_price_selectors ==
    << AttrSel("", "data-ftid", "=", "component_price"),
       NoSel("", "css-1dv8a3k"),
       NoSel("", "css-1v9f1fg"),
       AttrSel("", "class", "*=", "price") >>

\* int(''.join(numbers)) when the list numbers is not empty
JoinedNumber(numbers) ==
    IF numbers # <<>> THEN Some(IntOfStr(Join(numbers)).val) ELSE None

\* numbers = re.findall(r'\d+', price_text.replace(' ', '')) of the stripped
\* text of the element, and the integer they join to: None when the text
\* holds no digit
price_from_text(element) ==
    JoinedNumber(FindAllDigits(RemoveSpaces(get_text_strip(element))))

\* return int(price_str): the returned integer, or the exception
Returned(number) == IF number.exc THEN Raised ELSE Ok(Some(number.val))

\* The body of the selector loop of extract_avito_price for a found element:
\* the content attribute when it is not empty and str.isdigit() accepts it,
\* else the digits of the text.  Ok(None): the loop goes on.
content_or_text(content, from_text) ==
    IF ~IsNone(content) /\ Val(content) # <<>> /\ IsDigitStr(Val(content))
    THEN Returned(IntOfStr(Val(content)))
    ELSE Ok(from_text)

avito_price_of(element) ==
    IF IsNone(element) THEN Ok(None)
    ELSE content_or_text(Attr(Val(element), "content"), price_from_text(Val(element)))

drom_price_of(element) ==
    IF IsNone(element) THEN Ok(None) ELSE Ok(price_from_text(Val(element)))

\* The first step of a loop that returns or raises; Ok(None) when none does.
FirstReturn(steps) ==
    LET hits == {k \in 1..Len(steps) : steps[k].exc \/ ~IsNone(steps[k].val)}
    IN  IF hits = {} THEN Ok(None) ELSE steps[Min(hits)]

\* The selector loop of extract_avito_price: the first element of each
\* selector in turn.
avito_price_from_selectors(soup, selectors) ==
    FirstReturn([k \in 1..Len(selectors) |-> avito_price_of(select_one(soup, selectors[k]))])

\* The selector loop of extract_drom_price: element texts only.
drom_price_from_selectors(soup, selectors) ==
    FirstReturn([k \in 1..Len(selectors) |-> drom_price_of(select_one(soup, selectors[k]))])

\* container[key] after  key in container  held: Ok(Some(value)); Ok(None)
\* when the key is not in it; the exception when either operation raises.
MemberOf(has, item) ==
    IF has.exc THEN Raised
    ELSE IF ~has.val THEN Ok(None)
    ELSE IF item.exc THEN Raised
    ELSE Ok(Some(item.val))

PyMember(container, key) == MemberOf(PyIn(key, container), PyGetItem(container, key))

\* The JSON-LD step of extract_avito_price; its bare except swallows every
\* failure, which leaves None, as a script without offers or price does.
Swallowed(number) == IF number.exc THEN None ELSE Some(number.val)

json_ld_price(price) ==
    IF price.exc \/ IsNone(price.val) THEN None ELSE Swallowed(PyInt(Val(price.val)))

json_ld_offers(offers) ==
    IF offers.exc \/ IsNone(offers.val) THEN None
    ELSE json_ld_price(PyMember(Val(offers.val), Chars("price")))

json_ld_data(data) ==
    IF data.exc THEN None ELSE json_ld_offers(PyMember(data.val, Chars("offers")))

json_ld_script(json_ld) ==
    IF IsNone(json_ld) THEN None ELSE json_ld_data(json_loads(Val(json_ld).text))

avito_price_from_json_ld(soup) ==
    json_ld_script(select_one(soup, AttrSel("script", "type", "=", "application/ld+json")))

\* Leftmost position where the literal stands (letters without case) and
\* Rest accepts what follows it; 0 when there is none.
FirstWhere(text, lit, Rest(_)) ==
    LET low == Lower(text)
        lowlit == Lower(lit)
        n == Len(lit)
        hits == {i \in 1..(Len(text) - n + 1) :
                    SubSeq(low, i, i + n - 1) = lowlit /\ Rest(i + n)}
    IN  IF hits = {} THEN 0 ELSE Min(hits)

\* re.search(r'"price":\s*"(\d+)"', text, re.IGNORECASE | re.DOTALL): group 1
search_price_quoted(text) ==
    LET Quoted(j) ==
            LET q == SkipWs(text, j)
                e == DigitRunEnd(text, q + 1)
            IN  /\ q <= Len(text) /\ text[q] = "\""
                /\ e >= q + 1
                /\ e + 1 <= Len(text) /\ text[e + 1] = "\""
        i == FirstWhere(text, Chars("\"price\":"), Quoted)
        q == SkipWs(text, i + 8)
    IN  IF i = 0 THEN None ELSE Some(SubSeq(text, q + 1, DigitRunEnd(text, q + 1)))

\* re.search(r'"price":\s*(\d+)', text, re.IGNORECASE | re.DOTALL): group 1
search_price_bare(text) ==
    LET Bare(j) == DigitRunEnd(text, SkipWs(text, j)) >= SkipWs(text, j)
        i == FirstWhere(text, Chars("\"price\":"), Bare)
        d == SkipWs(text, i + 8)
    IN  IF i = 0 THEN None ELSE Some(SubSeq(text, d, DigitRunEnd(text, d)))

\* Positions at or after j where content="<digits>" stands.
ContentAt(text, j) ==
    {k \in j..Len(text) :
        /\ MatchAt(text, k, Chars("content=\""))
        /\ DigitRunEnd(text, k + 9) >= k + 9
        /\ DigitRunEnd(text, k + 9) + 1 <= Len(text)
        /\ text[DigitRunEnd(text, k + 9) + 1] = "\""}

\* re.search(r'itemprop="price".*?content="(\d+)"', text, IGNORECASE | DOTALL):
\* group 1 is the first content="<digits>" after the first itemprop="price"
search_itemprop_content(text) ==
    LET i == FirstWhere(text, Chars("itemprop=\"price\""), LAMBDA j : ContentAt(text, j) # {})
        k == Min(ContentAt(text, i + 16))
    IN  IF i = 0 THEN None ELSE Some(SubSeq(text, k + 9, DigitRunEnd(text, k + 9)))

\* End of the longest run of digits and whitespace that starts at i.
RECURSIVE DigitSpaceRunEnd(_, _)
DigitSpaceRunEnd(s, i) ==
    IF i <= Len(s) /\ (IsDigitChar(s[i]) \/ IsSpace(s[i]))
    THEN DigitSpaceRunEnd(s, i + 1) ELSE i - 1

\* Positions at or after j where (\d[\d\s]*)\s*<rouble sign> matches: a digit
\* whose run of digits and whitespace is followed at once by the sign.
RoubleAmountAt(text, j) ==
    {k \in j..Len(text) :
        /\ IsDigitChar(text[k])
        /\ DigitSpaceRunEnd(text, k) + 1 <= Len(text)
        /\ text[DigitSpaceRunEnd(text, k) + 1] = RUB}

\* re.search(r'<tsena>.*?(\d[\d\s]*)\s*<rouble sign>', text, IGNORECASE | DOTALL):
\* group 1
search_tsena(text) ==
    LET i == FirstWhere(text, Cyr("tsena"), LAMBDA j : RoubleAmountAt(text, j) # {})
        k == Min(RoubleAmountAt(text, i + Len(Cyr("tsena"))))
    IN  IF i = 0 THEN None ELSE Some(SubSeq(text, k, DigitSpaceRunEnd(text, k)))

\* The body of the pattern loop for what re.search gave: the group without
\* its spaces, returned as an integer when str.isdigit() accepts it.
pattern_price(group) ==
    IF ~IsNone(group) /\ IsDigitStr(RemoveSpaces(Val(group)))
    THEN Returned(IntOfStr(RemoveSpaces(Val(group))))
    ELSE Ok(None)

\* The pattern loop of both price extractors over the groups found.
price_from_patterns(groups) ==
    FirstReturn([k \in 1..Len(groups) |-> pattern_price(groups[k])])

\* What extract_avito_price does with what its three steps gave.
avito_price_pick(by_selector, by_json, by_pattern) ==
    IF by_selector.exc THEN Raised
    ELSE IF ~IsNone(by_selector.val) THEN Ok(Val(by_selector.val))
    ELSE IF ~IsNone(by_json) THEN Ok(Val(by_json))
    ELSE IF by_pattern.exc THEN Raised
    ELSE IF ~IsNone(by_pattern.val) THEN Ok(Val(by_pattern.val))
    ELSE Ok(0)

\* The try block of extract_avito_price.
avito_price_body(soup, page_text) ==
    avito_price_pick(avito_price_from_selectors(soup, avito_price_selectors),
                     avito_price_from_json_ld(soup),
                     price_from_patterns(<<search_price_quoted(page_text),
                                           search_price_bare(page_text),
                                           search_itemprop_content(page_text)>>))

extract_avito_price_NoTry(soup, page_text) == avito_price_body(soup, page_text)

extract_avito_price(soup, page_text) == Catch(avito_price_body(soup, page_text), 0)

\* What extract_drom_price does with what its two steps gave.
drom_price_pick(by_selector, by_pattern) ==
    IF by_selector.exc THEN Raised
    ELSE IF ~IsNone(by_selector.val) THEN Ok(Val(by_selector.val))
    ELSE IF by_pattern.exc THEN Raised
    ELSE IF ~IsNone(by_pattern.val) THEN Ok(Val(by_pattern.val))
    ELSE Ok(0)

\* The try block of extract_drom_price.
drom_price_body(soup, page_text) ==
    drom_price_pick(drom_price_from_selectors(soup, drom_price_selectors),
                    price_from_patterns(<<search_price_quoted(page_text),
                                          search_price_bare(page_text),
                                          search_tsena(page_text)>>))

extract_drom_price(soup, page_text) == Catch(drom_price_body(soup, page_text), 0)

---------------------------------------------------------------------------
(* bot.py: SimpleAvitoBot, images, year and region *)

avito_img_selectors ==
    << AttrSel("img", "data-src", "has", ""),
       AttrSel("img", "src", "*=", "avito"),
       Sel("img", "", "", "", "", "gallery-img-cover"),
       AttrSel("", "data-marker", "=", "image-frame/image") >>

drom_img_selectors ==
    << AttrSel("img", "src", "*=", "drom"),
       Sel("img", "", "", "", "", "css-1bm2a1l"),
       Sel("img", "", "", "", "", "b-album__item"),
       AttrSel("", "data-ftid", "=", "component_gallery_image") >>

\* img.get('data-src') or img.get('src')
avito_img_src(img) == IF AttrTruthy(img, "data-src") THEN Attr(img, "data-src") ELSE Attr(img, "src")

\* img.get('src')
drom_img_src(img) == Attr(img, "src")

\* What one element adds to the list: its source when that is not empty and
\* starts with 'http' (a source that also starts with '//' would get 'https:'
\* in front), else nothing.
image_entry(src) ==
    IF ~IsNone(src) /\ Val(src) # <<>> /\ StartsWith(Val(src), Chars("http"))
    THEN IF StartsWith(Val(src), Chars("//")) THEN <<Chars("https:") \o Val(src)>>
         ELSE <<Val(src)>>
    ELSE <<>>

\* The selector loop visiting every element of every selector.
RECURSIVE selected_images_NoCap(_, _)
selected_images_NoCap(soup, selectors) ==
    IF selectors = <<>> THEN <<>>
    ELSE select(soup, Head(selectors)) \o selected_images_NoCap(soup, Tail(selectors))

\* The elements the selector loop visits: the first ten of every selector,
\* selector after selector.
RECURSIVE selected_images(_, _)
selected_images(soup, selectors) ==
    IF selectors = <<>> THEN <<>>
    ELSE Take(select(soup, Head(selectors)), 10) \o selected_images(soup, Tail(selectors))

\* The list the loop builds, Src being the way the dialect reads a source.
collect_images(soup, selectors, Src(_)) ==
    LET visited == selected_images(soup, selectors)
    IN  Join([i \in 1..Len(visited) |-> image_entry(Src(visited[i]))])

\* unique_images: every entry once, at the place of its first occurrence
RECURSIVE unique_images(_)
unique_images(images) ==
    IF images = <<>> THEN <<>>
    ELSE LET rest == unique_images(SubSeq(images, 1, Len(images) - 1))
             img == images[Len(images)]
         IN  IF \E i \in 1..Len(rest) : rest[i] = img THEN rest ELSE Append(rest, img)

extract_avito_images(soup) ==
    Catch(Ok(unique_images(collect_images(soup, avito_img_selectors, avito_img_src))), <<>>)

extract_drom_images(soup) ==
    Catch(Ok(unique_images(collect_images(soup, drom_img_selectors, drom_img_src))), <<>>)

\* \w of the re module
IsWordChar(c) == c \in DigitSet \cup UpperSet \cup {LowerOf[u] : u \in UpperSet} \cup {"_"}

\* re.search(r'\b(19|20)\d{2}\b', text): the matched text
search_year(text) ==
    LET hits == {i \in 1..(Len(text) - 3) :
                    /\ SubSeq(text, i, i + 1) \in {Chars("19"), Chars("20")}
                    /\ IsDigitChar(text[i + 2]) /\ IsDigitChar(text[i + 3])
                    /\ i = 1 \/ ~IsWordChar(text[i - 1])
                    /\ i + 3 = Len(text) \/ ~IsWordChar(text[i + 4])}
    IN  IF hits = {} THEN None ELSE Some(SubSeq(text, Min(hits), Min(hits) + 3))

\* int(year_match.group()) if year_match else 2020
YearOr2020(year_match) == IF IsNone(year_match) THEN Ok(2020) ELSE IntOfStr(Val(year_match))

year_body(title) == YearOr2020(search_year(title))

extract_year(title) == Catch(year_body(title), 2020)

drom_year_selectors ==
    << AttrSel("", "data-ftid", "=", "component_inline-param"),
       NoSel("", "css-1ei9tni"),
       AttrSel("", "class", "*=", "year") >>

\* The first entry of a list that is not None.
FirstSome(found) ==
    LET hits == {k \in 1..Len(found) : ~IsNone(found[k])}
    IN  IF hits = {} THEN None ELSE found[Min(hits)]

\* The first year found in the texts (element.get_text()) of the elements.
year_in_elements(elements) ==
    FirstSome([k \in 1..Len(elements) |-> search_year(elements[k].text)])

year_from_selectors(soup, selectors) ==
    FirstSome([k \in 1..Len(selectors) |-> year_in_elements(select(soup, selectors[k]))])

\* The year of the title when it has one, else the first of the elements.
drom_year_pick(in_title, in_elements) ==
    IF ~IsNone(in_title) THEN IntOfStr(Val(in_title)) ELSE YearOr2020(in_elements)

drom_year_body(soup, title) ==
    drom_year_pick(search_year(title), year_from_selectors(soup, drom_year_selectors))

extract_drom_year(soup, title) == Catch(drom_year_body(soup, title), 2020)

\* str.title(): a letter after a letter is lowered, any other letter raised
UpperChar(c) ==
    IF \E u \in UpperSet : LowerOf[u] = c THEN CHOOSE u \in UpperSet : LowerOf[u] = c ELSE c
IsLetter(c) == c \in UpperSet \/ \E u \in UpperSet : LowerOf[u] = c
PyTitle(s) ==
    [i \in 1..Len(s) |->
        IF i > 1 /\ IsLetter(s[i - 1]) THEN LowerChar(s[i]) ELSE UpperChar(s[i])]

region_map ==
    << <<Chars("moskva"), Cyr("Moskva")>>,
       <<Chars("sankt-peterburg"), Cyr("Sankt-Peterburg")>>,
       <<Chars("spb"), Cyr("Sankt-Peterburg")>>,
       <<Chars("novosibirsk"), Cyr("Novosibirsk")>>,
       <<Chars("ekaterinburg"), Cyr("Ekaterinburg")>>,
       <<Chars("kazan"), Cyr("Kazan")>> >>

\* End of the longest run of characters other than '/' that starts at i.
RECURSIVE SegmentEnd(_, _)
SegmentEnd(s, i) == IF i <= Len(s) /\ s[i] # "/" THEN SegmentEnd(s, i + 1) ELSE i - 1

\* re.search(r'avito\.ru/([^/]+)', url): group 1
search_region(url) ==
    LET hits == {i \in 1..(Len(url) - 9) :
                    LitAt(url, i, Chars("avito.ru/")) /\ url[i + 9] # "/"}
    IN  IF hits = {} THEN None
        ELSE Some(SubSeq(url, Min(hits) + 9, SegmentEnd(url, Min(hits) + 9)))

\* region_map.get(region, region.replace('-', ' ').title())
MappedRegion(region) ==
    LET known == {i \in 1..Len(region_map) : region_map[i][1] = region}
    IN  IF known # {} THEN region_map[Min(known)][2]
        ELSE PyTitle([i \in 1..Len(region) |-> IF region[i] = "-" THEN " " ELSE region[i]])

RegionOf(match) == IF IsNone(match) THEN Ok(Cyr("Neizvestno")) ELSE Ok(MappedRegion(Val(match)))

avito_region_body(url) == RegionOf(search_region(url))

extract_avito_region(url) == Catch(avito_region_body(url), Cyr("Neizvestno"))

drom_region_selectors ==
    << AttrSel("", "data-ftid", "=", "component_seller_location"),
       NoSel("", "css-1l12n0z"),
       AttrSel("", "class", "*=", "location") >>

RegionText(region_text) ==
    IF IsNone(region_text) THEN Ok(Cyr("Neizvestno")) ELSE Ok(Val(region_text))

extract_drom_region(soup) ==
    Catch(RegionText(FirstText(soup, drom_region_selectors)), Cyr("Neizvestno"))

---------------------------------------------------------------------------
(* bot.py: SimpleAvitoBot, parsing, scoring and the report *)

\* What requests.get gives: the request raises, the status makes
\* raise_for_status raise, or a page arrives.  A page is kept by its parts,
\* each a sequence of elements; the document is their concatenation.
RequestFailed == [status |-> 0]
HttpError(code) == [status |-> code]
Fetched(page) == [status |-> 200, page |-> page]

Page(title, price, images, extra) ==
    [title |-> title, price |-> price, images |-> images, extra |-> extra]

\* BeautifulSoup(response.text, 'html.parser')
Soup(page) == page.title \o page.price \o page.images \o page.extra

\* response.text
ResponseText(page) == HtmlAll(Soup(page))

\* The dict a parser returns once every extractor has returned; an
\* exception leaving an extractor ends in the except clause of the parser.
AdData(title, price, images, year, region, url, source) ==
    IF title.exc \/ price.exc \/ images.exc \/ year.exc \/ region.exc THEN None
    ELSE Some([title |-> title.val, price |-> price.val, year |-> year.val,
               region |-> region.val, image_count |-> Len(images.val),
               images |-> images.val, url |-> url, source |-> source])

\* The year extractor is called with the title that was extracted.
YearOfTitle(title, Year(_)) == IF title.exc THEN Raised ELSE Year(title.val)

avito_ad(url, soup, page_text, title) ==
    AdData(title,
           extract_avito_price(soup, page_text),
           extract_avito_images(soup),
           YearOfTitle(title, extract_year),
           extract_avito_region(url),
           url, "avito")

parse_avito_ad(url, response) ==
    IF response.status # 200 THEN None
    ELSE avito_ad(url, Soup(response.page), ResponseText(response.page),
                  extract_avito_title(Soup(response.page)))

drom_ad(url, soup, page_text, title) ==
    AdData(title,
           extract_drom_price(soup, page_text),
           extract_drom_images(soup),
           YearOfTitle(title, LAMBDA t : extract_drom_year(soup, t)),
           extract_drom_region(soup),
           url, "drom")

parse_drom_ad(url, response) ==
    IF response.status # 200 THEN None
    ELSE drom_ad(url, Soup(response.page), ResponseText(response.page),
                 extract_drom_title(Soup(response.page)))

analyze_price_NoUnspecified(price) ==
    IF price < 100000 THEN [emoji |-> "siren", text |-> "Podozritelno nizkaya", score |-> 1]
    ELSE IF price < 300000 THEN [emoji |-> "money bag", text |-> "Nizkaya", score |-> 7]
    ELSE IF price < 800000 THEN [emoji |-> "banknote", text |-> "Srednyaya", score |-> 8]
    ELSE IF price < 2000000 THEN [emoji |-> "gem", text |-> "Vysokaya", score |-> 6]
    ELSE [emoji |-> "racing car", text |-> "Premium", score |-> 5]

analyze_price(price) ==
    IF price = 0 THEN [emoji |-> "question", text |-> "Tsena ne ukazana", score |-> 3]
    ELSE IF price < 100000 THEN [emoji |-> "siren", text |-> "Podozritelno nizkaya", score |-> 1]
    ELSE IF price < 300000 THEN [emoji |-> "money bag", text |-> "Nizkaya", score |-> 7]
    ELSE IF price < 800000 THEN [emoji |-> "banknote", text |-> "Srednyaya", score |-> 8]
    ELSE IF price < 2000000 THEN [emoji |-> "gem", text |-> "Vysokaya", score |-> 6]
    ELSE [emoji |-> "racing car", text |-> "Premium", score |-> 5]

analyze_photos(image_count) ==
    IF image_count = 0 THEN [emoji |-> "cross", text |-> "Net foto", score |-> 1]
    ELSE IF image_count < 3 THEN [emoji |-> "warning", text |-> "Malo foto", score |-> 5]
    ELSE IF image_count < 6 THEN [emoji |-> "check", text |-> "Dostatochno", score |-> 8]
    ELSE [emoji |-> "camera", text |-> "Mnogo foto", score |-> 9]

\* car_age of analyze_year, which is also the age generate_recommendations
\* compares with 15.
car_age(year) == 2024 - year

analyze_year(year) ==
    IF car_age(year) <= 3 THEN [emoji |-> "new", text |-> "Novyy", score |-> 9]
    ELSE IF car_age(year) <= 7 THEN [emoji |-> "check", text |-> "Sredniy vozrast", score |-> 7]
    ELSE IF car_age(year) <= 12 THEN [emoji |-> "warning", text |-> "Staryy", score |-> 5]
    ELSE [emoji |-> "car", text |-> "Veteran", score |-> 3]

\* round(total / n) of Python 3 for integer total and n > 0: the nearest
\* integer, a tie going to the even one.
PyRoundDiv(total, n) ==
    LET q == total \div n
        r == total % n
    IN  IF 2 * r < n THEN q
        ELSE IF 2 * r > n THEN q + 1
        ELSE IF q % 2 = 0 THEN q ELSE q + 1

RECURSIVE SumSeq(_)
SumSeq(scores) == IF scores = <<>> THEN 0 ELSE Head(scores) + SumSeq(Tail(scores))

calculate_overall_score_Truncated(ad_data_, analysis_) ==
    LET scores == <<analysis_.price_analysis.score,
                    analysis_.photo_analysis.score,
                    analysis_.year_analysis.score>>
    IN  SumSeq(scores) \div Len(scores)

calculate_overall_score(ad_data_, analysis_) ==
    LET scores == <<analysis_.price_analysis.score,
                    analysis_.photo_analysis.score,
                    analysis_.year_analysis.score>>
    IN  PyRoundDiv(SumSeq(scores), Len(scores))

generate_recommendations(ad_data_, analysis_) ==
    LET photos == IF ad_data_.image_count = 0 THEN <<"Net fotografiy">>
                  ELSE IF ad_data_.image_count < 3 THEN <<"Malo fotografiy">>
                  ELSE <<>>
        price == IF ad_data_.price = 0 THEN <<"Tsena ne ukazana">>
                 ELSE IF ad_data_.price < 100000 THEN <<"Podozritelno nizkaya tsena">>
                 ELSE <<>>
        age == IF car_age(ad_data_.year) > 15 THEN <<"Avtomobil starshe 15 let">> ELSE <<>>
        recommendations == photos \o price \o age
    IN  IF recommendations = <<>> THEN <<"Obyavlenie vyglyadit normalno">>
        ELSE recommendations

analyze_ad(ad_data_) ==
    LET scored == [price_analysis |-> analyze_price(ad_data_.price),
                   photo_analysis |-> analyze_photos(ad_data_.image_count),
                   year_analysis |-> analyze_year(ad_data_.year),
                   recommendations |-> <<>>]
        advised == [scored EXCEPT !.recommendations = generate_recommendations(ad_data_, scored)]
    IN  advised @@ [overall_score |-> calculate_overall_score(ad_data_, advised)]

\* The values generate_report writes into the text of the report.
generate_report(ad_data_, analysis_) ==
    LET paint_analysis == GetOr(analysis_, "paint_analysis", [none |-> TRUE])
        paint_score == GetOr(paint_analysis, "score", 0)
    IN  [kind |-> "report",
         source |-> ad_data_.source,
         title |-> ad_data_.title,
         price |-> ad_data_.price,
         price_emoji |-> analysis_.price_analysis.emoji,
         year |-> ad_data_.year,
         year_emoji |-> analysis_.year_analysis.emoji,
         region |-> ad_data_.region,
         image_count |-> ad_data_.image_count,
         photo_emoji |-> analysis_.photo_analysis.emoji,
         overall_score |-> analysis_.overall_score,
         paint_score |-> paint_score,
         paint_emoji |-> GetOr(paint_analysis, "emoji", "question"),
         paint_condition |-> GetOr(paint_analysis, "condition", "ne opredeleno"),
         paint_message |-> GetOr(paint_analysis, "message", <<"Analiz ne vypolnen">>),
         price_text |-> analysis_.price_analysis.text,
         photo_text |-> analysis_.photo_analysis.text,
         year_text |-> analysis_.year_analysis.text,
         recommendations |-> analysis_.recommendations,
         paint_recommendation |->
             IF paint_score > 0
             THEN IF paint_score < 40 THEN <<"Sostoyanie LKP plokhoe">>
                  ELSE IF paint_score < 70 THEN <<"Sostoyanie LKP srednee">>
                  ELSE <<"Sostoyanie LKP khoroshee">>
             ELSE <<>>]

---------------------------------------------------------------------------
(* bot.py: SimpleAvitoBot, the link handlers *)

\* What the image hosts answer during one run of a handler: "up" serves a
\* fair picture under every URL, "down" refuses every request, and under
\* "mixed" the answer depends on the file the URL names.
Nets == {"up", "mixed", "down"}

ImageAt(net, url) ==
    LET file == IF Len(url) >= 5 THEN url[Len(url) - 4] ELSE "?"
    IN  CASE net = "up" -> Picture(75, 75, 75, 90)
          [] net = "down" -> [kind |-> "request_error"]
          [] OTHER ->
                CASE file = "a" -> Picture(100, 100, 100, 90)
                  [] file = "b" -> [kind |-> "small"]
                  [] file = "c" -> Picture(0, 0, 0, 40)
                  [] file = "d" -> Picture(60, 60, 60, 70)
                  [] OTHER -> [kind |-> "http_error"]

\* The calls made on the chat, oldest first: send_message posts the status
\* message and every edit_message_text replaces its text.
Status(api, stage) == [api |-> api, text |-> [kind |-> "status", stage |-> stage]]
Edit(text) == [api |-> "edit_message_text", text |-> text]
ErrorText(site, reason) == [kind |-> "error", site |-> site, reason |-> reason]

\* What the image hosts answer for each image of the list.
Answers(net, images) == [i \in 1..Len(images) |-> ImageAt(net, images[i])]

\* The chat and the results of a handler whose listing was parsed and
\* analysed: analysis holds paint_analysis from here on.
Reported(opening, listing, analyzed) ==
    [ad_data |-> Some(listing), analysis |-> Some(analyzed),
     chat |-> opening
              \o << Status("edit_message_text", <<"Analiziruyu parametry">>),
                    Status("edit_message_text", <<"Analiziruyu LKP po foto">>),
                    Status("edit_message_text", <<"Formiruyu otchet">>),
                    Edit(generate_report(listing, analyzed)) >>]

\* The handler once its parser has returned.
AfterParse(site, opening, parsed, net) ==
    IF IsNone(parsed)
    THEN [ad_data |-> None, analysis |-> None,
          chat |-> Append(opening,
                          Edit(ErrorText(site, "Ne udalos poluchit dannye obyavleniya")))]
    ELSE Reported(opening, Val(parsed),
                  analyze_ad(Val(parsed))
                  @@ [paint_analysis |->
                        analyze_paint_from_urls(Answers(net, Val(parsed).images))])

\* The body the two handlers share: site names the handler, parsed is what
\* its parser returned.
handle_parsed(site, parsed, net) ==
    AfterParse(site,
               << Status("send_message", <<"Analiziruyu obyavlenie", site>>),
                  Status("edit_message_text", <<"Poluchayu dannye">>) >>,
               parsed, net)

handle_avito_url(url, response, net) ==
    handle_parsed("Avito", parse_avito_ad(url, response), net)

handle_drom_url(url, response, net) ==
    handle_parsed("Drom", parse_drom_ad(url, response), net)

\* The chat may refuse calls: down holds the numbers, in the order the
\* handler makes them, of the chat calls that raise.  Every call made is
\* kept with its outcome.
Marked(calls, k) == [i \in 1..Len(calls) |-> calls[i] @@ [ok |-> i # k]]

\* analysis as far as the try block got when its k-th chat call raised:
\* analyze_ad runs after the third call, paint_analysis is set after the
\* fourth.
AnalysisBefore(analysis, k) ==
    IF IsNone(analysis) \/ k <= 3 THEN None
    ELSE IF k = 4
    THEN Some([f \in DOMAIN Val(analysis) \ {"paint_analysis"} |-> Val(analysis)[f]])
    ELSE analysis

\* The handler whose k-th chat call raised.  A call of the try block that
\* raises leads to the except clause, which edits the status message into
\* the error text; when that edit raises (also because status_msg was never
\* bound, the first call having raised) the inner except sends the error
\* text as a new message, and an exception of that call leaves the handler.
\* When the call that raised is the edit of the except clause itself, the
\* send follows at once.
Interrupted(site, r, k, down) ==
    LET in_except == r.chat[k].text.kind = "error"
        error == IF in_except THEN r.chat[k].text ELSE ErrorText(site, "chat call failed")
        edit == IF in_except \/ k = 1 THEN <<>>
                ELSE <<Edit(error) @@ [ok |-> (k + 1) \notin down]>>
        edit_failed == in_except \/ k = 1 \/ (k + 1) \in down
        send == IF edit_failed
                THEN <<[api |-> "send_message", text |-> error,
                        ok |-> (k + Len(edit) + 1) \notin down]>>
                ELSE <<>>
    IN  [ad_data |-> IF k >= 3 THEN r.ad_data ELSE None,
         analysis |-> AnalysisBefore(r.analysis, k),
         chat |-> Marked(SubSeq(r.chat, 1, k), k) \o edit \o send]

\* A handler under the chat behaviour down: r is what it does when every
\* chat call is taken.
Delivery(site, r, down) ==
    IF \A i \in 1..Len(r.chat) : i \notin down
    THEN [ad_data |-> r.ad_data, analysis |-> r.analysis, chat |-> Marked(r.chat, 0)]
    ELSE Interrupted(site, r, Min({i \in 1..Len(r.chat) : i \in down}), down)

---------------------------------------------------------------------------
(* The pages and links the handlers are run on *)

\* Links the Avito handler accepts: with a mapped region, with another
\* region, and without a region segment.
AvitoUrls ==
    { Chars("https://www.avito.ru/moskva/avtomobili/vw_1"),
      Chars("https://www.avito.ru/nizhniy-novgorod/avtomobili/vw_1"),
      Chars("https://avito.ru/") }

DromUrls == { Chars("https://auto.drom.ru/omsk/vw/golf/1.html") }

Meta(name, value, content) == El("meta", <<At(name, value), At("content", content)>>, "")
Img(src) == El("img", <<At("src", src)>>, "")

TitlePieces ==
    { <<>>,
      <<El("h1", <<At("data-marker", "item-view/title")>>, "VW Golf 2018")>>,
      <<El("h1", <<At("class", "title-info-title")>>, " BMW X5 2014\n")>>,
      <<El("h1", <<At("class", "css-title")>>, " "), El("title", <<>>, "Opel 2030")>>,
      <<Meta("property", "og:title", "Lada 1999 ")>>,
      <<El("title", <<>>, " ")>>,
      <<El("h1", <<>>, "Kia Rio")>> }

\* The three ways of writing one amount, and further amounts.
Written == {"1 234 567", "1,234,567", "1234567"}

PriceSpan(text) == El("span", <<At("data-marker", "item-view/item-price")>>, text)
JsonLd(text) == El("script", <<At("type", "application/ld+json")>>, text)
Script(text) == El("script", <<At("type", "text/javascript")>>, text)

AvitoPricePieces ==
    { <<>> }
    \cup { <<Meta("itemprop", "price", w)>> : w \in Written \cup {"450000", "0", "^"} }
    \cup { <<PriceSpan(w)>> :
             w \in Written \cup {"1\n234\n567 #", "0 #", "99 999 #", "250000", "2 500 000 #",
                                 "Dogovornaya"} }
    \cup { <<JsonLd(j)>> :
             j \in {"{\"offers\": {\"price\": 450000}}",
                    "{\"offers\": {\"price\": -5}}",
                    "{\"offers\": {\"price\": \"-5\"}}",
                    "{\"offers\": {\"price\": 1234567.99}}",
                    "{\"offers\": {\"price\": \"1 234 567\"}}",
                    "{\"offers\": {\"price\": \"1,234,567\"}}",
                    "{\"offers\": {\"price\": \"1234567\"}}",
                    "{\"offers\": [{\"price\": 450000}]}",
                    "{\"offers\": {\"price\": null}}",
                    "{\"offers\": \"best price\"}",
                    "{\"offers\": {\"price\": 1234567}",
                    ""} }
    \cup { <<Script(j)>> :
             j \in {"{\"price\":\"1 234 567\"}", "{\"price\":\"1,234,567\"}",
                    "{\"price\":\"1234567\"}", "{\"Price\": 1234567}"} }
    \cup { <<PriceSpan("450 000 #"), JsonLd("{\"offers\": {\"price\": 250000}}")>>,
           <<El("div", <<At("class", "js-item-price")>>, "Tsena: 99999"), Meta("itemprop", "price", "450000")>>,
           <<Meta("itemprop", "price", "^"), PriceSpan("450 000 #")>>,
           <<Script("{\"price\": 99}"), JsonLd("{\"offers\": {\"price\": 450000}}")>> }

DromPricePieces ==
    { <<>> }
    \cup { <<El("div", <<At("data-ftid", "component_price")>>, w)>> :
             w \in Written \cup {"1\n234\n567 #", "0 #", "250000 #", "po dogovorennosti"} }
    \cup { <<El("span", <<At("class", "offer price-block")>>, "99 999 #")>>,
           <<El("span", <<At("class", "css-1dv8a3k")>>, "2 500 000 #")>> }
    \cup { <<Script(j)>> :
             j \in {"{\"price\":\"1 234 567\"}", "{\"price\":\"1234567\"}",
                    "{\"price\": 450000}", "{\"price\": -5}"} }
    \cup { <<Script("{\"price\": 99}"), JsonLd("{\"offers\": {\"price\": 450000}}")>>,
           <<El("div", <<At("data-ftid", "component_price")>>, "250 000 #"),
             Script("{\"price\": 99}")>> }
    \cup { <<El("p", <<>>, "~tsena 1 234 567 #")>>,
           <<El("p", <<>>, "~tsena 1,234,567 #")>>,
           <<El("p", <<>>, "~tsena 1234567 #")>>,
           <<El("p", <<>>, "~TSENA 2018 goda - 1\n234\n567 #")>> }

\* Twelve images of the image host and one of another host in the gallery.
ManyImages ==
    [i \in 1..12 |-> Img("https://avito.st/" \o SubSeq("abcdefghijkl", i, i) \o ".jpg")]
    \o <<ElIn("gallery-img-cover", "img", <<At("src", "https://cdn.st/z.jpg")>>, "")>>

AvitoImagePieces ==
    { <<>>,
      ManyImages,
      <<Img("//avito.st/b.jpg")>>,
      <<Img("https://avito.st/a.jpg"), Img("//avito.st/a.jpg")>>,
      <<El("img", <<At("data-src", "//avito.st/a.jpg"), At("src", "https://avito.st/a.jpg")>>, "")>>,
      <<ElIn("gallery-img-cover", "img",
             <<At("data-src", "https://avito.st/a.jpg"), At("src", "https://avito.st/b.jpg")>>, ""),
        Img("https://avito.st/b.jpg")>>,
      <<Img("https://avito.st/a.jpg"), Img("https://avito.st/b.jpg"),
        Img("https://avito.st/c.jpg"), Img("https://avito.st/a.jpg"),
        ElIn("gallery-img-cover", "img", <<At("src", "https://cdn.st/d.jpg")>>, "")>>,
      <<Img("/static/avito.png"), Img(""),
        El("div", <<At("data-marker", "image-frame/image")>>, "")>>,
      <<Img("https://avito.st/e.jpg"), Img("https://avito.st/d.jpg"),
        Img("https://avito.st/c.jpg"), Img("https://avito.st/b.jpg"),
        Img("https://avito.st/a.jpg"), Img("https://avito.st/f.jpg")>> }

DromImagePieces ==
    { <<>>,
      <<Img("//s.drom.ru/b.jpg")>>,
      <<Img("//s.drom.ru/a.jpg"), Img("https://s.drom.ru/a.jpg")>>,
      <<ElIn("b-album__item", "img", <<At("src", "https://s.drom.ru/a.jpg")>>, ""),
        ElIn("b-album__item", "img", <<At("src", "https://cdn.st/c.jpg")>>, ""),
        Img("https://s.drom.ru/d.jpg"), Img("https://s.drom.ru/b.jpg"),
        ElIn("css-1bm2a1l", "img", <<At("src", "https://s.drom.ru/a.jpg")>>, "")>>,
      <<El("img", <<At("data-src", "https://s.drom.ru/a.jpg"), At("src", "/drom/lazy.gif")>>, "")>> }

AvitoExtraPieces ==
    { <<>>,
      <<El("p", <<>>, "Prodayu avto, torg")>>,
      <<Meta("property", "og:image:width", "640")>> }

DromExtraPieces ==
    { <<>>,
      <<El("p", <<>>, "Prodayu avto, torg")>>,
      <<El("div", <<At("data-ftid", "component_seller_location")>>, " Omsk ")>>,
      <<El("span", <<At("data-ftid", "component_inline-param")>>, "probeg 2000 km"),
        El("span", <<At("class", "css-year")>>, "god 2014")>> }

\* The pages: every title with every image part, and every price part with
\* the titles and image parts that have or lack a year and images.
Pages(titles, prices, images, extras) ==
    LET few_titles == {t \in titles : t = <<>> \/ (t[1].tag = "h1" /\ get_text_strip(t[1]) # <<>>)}
        few_images == {i \in images : Len(i) \in {0, 5}}
    IN  { Page(t, <<>>, i, x) : t \in titles, i \in images, x \in extras }
        \cup { Page(t, p, i, x) : t \in few_titles, p \in prices, i \in few_images, x \in extras }

AvitoPages == Pages(TitlePieces, AvitoPricePieces, AvitoImagePieces, AvitoExtraPieces)

DromPages == Pages(TitlePieces, DromPricePieces, DromImagePieces, DromExtraPieces)

Failures == { RequestFailed, HttpError(404) }

\* The pages without a price part that have no extra part, or nothing but
\* one.
Plain(pages) ==
    { page \in pages :
        /\ page.price = <<>>
        /\ page.extra = <<>> \/ (page.title = <<>> /\ page.images = <<>>) }

\* The runs of a handler: <<link, answer of requests.get, image hosts>>.
\* Every page is handled under one link with mixed image hosts; the plain
\* pages and the failed requests are handled under every link and every
\* behaviour of the image hosts.
Runs(urls, pages) ==
    ({CHOOSE url \in urls : search_region(url) # None \/ urls = DromUrls}
        \X {Fetched(page) : page \in pages} \X {"mixed"})
    \cup (urls \X (Failures \cup {Fetched(page) : page \in Plain(pages)}) \X Nets)

\* Longest title, in pieces, given to _extract_model.
MaxPieces == 3

\* The updates one polling attempt takes at most.
MaxUpdates == 3

\* Titles given to _extract_model: no title, and the texts of up to MaxPieces
\* pieces, each a word or a whitespace character.
TitlePiecePool ==
    { Chars("Golf"), Chars("polo"), Chars("PASSAT7"), Chars("Rio"), <<" ">>, <<"\n">> }

ModelTitles ==
    {None} \cup { Some(Join(p)) : p \in SeqsUpTo(TitlePiecePool, MaxPieces) }

\* Chat outages: none, or one that lasts for one to three calls in a row.
ChatOutages == {{}} \cup { n..(n + d) : n \in 1..6, d \in 0..2 }

\* Every run is made with a chat that takes every call; the runs with working
\* image hosts whose request fails or whose page is nothing but images are
\* also made under every outage.
OutagesFor(run) ==
    IF /\ run[3] = "up"
       /\ \/ run[2] = RequestFailed
          \/ /\ run[2].status = 200
             /\ run[2].page.title = <<>> /\ run[2].page.extra = <<>>
             /\ Len(run[2].page.images) = 5
    THEN ChatOutages ELSE {{}}

---------------------------------------------------------------------------
(* The state machines *)

DbIdle ==
    /\ db_call = [op |-> "none"]
    /\ db_ret = None
    /\ db_err = FALSE

PaintIdle ==
    /\ paint_call = [op |-> "none"]
    /\ paint_ret = None
    /\ paint_seen = <<>>

BotIdle ==
    /\ bot_call = [op |-> "none"]
    /\ bot_ad_data = None
    /\ bot_analysis = None
    /\ bot_chat = <<>>

\* run has not been called.
RunIdle ==
    /\ run_pc = "idle"
    /\ attempt = 0
    /\ retry_delay = 0
    /\ run_slept = <<>>
    /\ run_updates = <<>>

Init ==
    /\ car_ads = {}
    /\ DbIdle
    /\ PaintIdle
    /\ BotIdle
    /\ RunIdle

\* A call is made when no other call is in progress.
SaveCarAd ==
    /\ UNCHANGED <<paintVars, botVars, runVars>>
    /\ db_call.op = "none"
    /\ \E ad_data \in AdDataPool, store_up \in BOOLEAN :
        LET r == save_car_ad(car_ads, ad_data, store_up)
        IN  /\ car_ads' = r.car_ads
            /\ db_call' = [op |-> "save_car_ad", ad_data |-> ad_data]
            /\ db_ret' = None
            /\ db_err' = r.err

FindSimilarAds ==
    /\ UNCHANGED <<paintVars, botVars, runVars>>
    /\ db_call.op = "none"
    /\ \E original_ad \in TargetPool, limit \in 0..MaxLimit, store_up \in BOOLEAN :
        \E r \in find_similar_ads(car_ads, original_ad, limit, store_up) :
            /\ db_call' = [op |-> "find_similar_ads", original_ad |-> original_ad,
                           limit |-> limit]
            /\ db_ret' = r.rows
            /\ db_err' = r.err
            /\ UNCHANGED car_ads

\* The caller takes the returned value; the manager is idle again.
DbReturn ==
    /\ db_call.op # "none"
    /\ db_call' = [op |-> "none"]
    /\ db_ret' = None
    /\ db_err' = FALSE
    /\ UNCHANGED <<car_ads, paintVars, botVars, runVars>>

NextDB == SaveCarAd \/ FindSimilarAds \/ DbReturn

SpecDB == Init /\ [][NextDB]_vars

\* _extract_model is called on a title.
ExtractModel ==
    /\ UNCHANGED <<paintVars, botVars, runVars>>
    /\ db_call.op = "none"
    /\ \E title \in ModelTitles :
        /\ db_call' = [op |-> "_extract_model", title |-> title]
        /\ db_ret' = _extract_model(title)
        /\ UNCHANGED <<car_ads, db_err>>

NextModelKey == ExtractModel \/ DbReturn

SpecModelKey == Init /\ [][NextModelKey]_vars

\* PaintAnalyzer.analyze_paint_from_urls on a list of images.
AnalyzePaintFromUrls ==
    /\ UNCHANGED <<dbVars, botVars, runVars>>
    /\ paint_call.op = "none"
    /\ \E image_urls \in SeqsUpTo(ImagePool, MaxImages) :
        /\ paint_call' = [op |-> "analyze_paint_from_urls", image_urls |-> image_urls]
        /\ paint_ret' = Some(analyze_paint_from_urls(image_urls))
        /\ paint_seen' = Take(image_urls, 3)

\* The caller takes the result.
PaintReturn ==
    /\ UNCHANGED <<dbVars, botVars, runVars>>
    /\ paint_call.op # "none"
    /\ paint_call' = [op |-> "none"]
    /\ paint_ret' = None
    /\ paint_seen' = <<>>

NextPaint == AnalyzePaintFromUrls \/ PaintReturn

SpecPaint == Init /\ [][NextPaint]_vars

\* The state a handler leaves: r is what it computed on the run.
Handled(op, run, down, r) ==
    /\ bot_call' = [op |-> op, url |-> run[1], response |-> run[2], net |-> run[3],
                    down |-> down]
    /\ bot_ad_data' = r.ad_data
    /\ bot_analysis' = r.analysis
    /\ bot_chat' = r.chat

\* A link to an Avito listing arrives; the handler runs to its last message.
HandleAvitoUrl ==
    /\ UNCHANGED <<dbVars, paintVars, runVars>>
    /\ bot_call.op = "none"
    /\ \E run \in Runs(AvitoUrls, AvitoPages) :
        \E down \in OutagesFor(run) :
            Handled("handle_avito_url", run, down,
                    Delivery("Avito", handle_avito_url(run[1], run[2], run[3]), down))

\* A link to a Drom listing arrives.
HandleDromUrl ==
    /\ UNCHANGED <<dbVars, paintVars, runVars>>
    /\ bot_call.op = "none"
    /\ \E run \in Runs(DromUrls, DromPages) :
        \E down \in OutagesFor(run) :
            Handled("handle_drom_url", run, down,
                    Delivery("Drom", handle_drom_url(run[1], run[2], run[3]), down))

\* The handler has returned; the next message is taken.
BotReturn ==
    /\ UNCHANGED <<dbVars, paintVars, runVars>>
    /\ bot_call.op # "none"
    /\ bot_call' = [op |-> "none"]
    /\ bot_ad_data' = None
    /\ bot_analysis' = None
    /\ bot_chat' = <<>>

NextBot == HandleAvitoUrl \/ HandleDromUrl \/ BotReturn

SpecBot == Init /\ [][NextBot]_vars

\* SimpleAvitoBot.run.  run_pc is "polling" inside infinity_polling,
\* "returned" at the break, "except" at the head of the except clause,
\* "sleeping" inside time.sleep, "done" once run has returned and "raised"
\* once the exception has left it.
max_retries == 3

\* retry_delay without its doubling.
next_retry_delay_Constant(delay) == delay

\* retry_delay *= 2
next_retry_delay(delay) == delay * 2

\* max_retries = 3; retry_delay = 10; the first attempt of the loop enters
\* infinity_polling.
RunStart ==
    /\ run_pc = "idle"
    /\ attempt' = 0
    /\ retry_delay' = 10
    /\ run_updates' = <<0>>
    /\ run_pc' = "polling"
    /\ UNCHANGED <<run_slept, dbVars, paintVars, botVars>>

\* infinity_polling takes one more update and goes on polling.
PollUpdate ==
    /\ run_pc = "polling"
    /\ run_updates[attempt + 1] < MaxUpdates
    /\ run_updates' = [run_updates EXCEPT ![attempt + 1] = @ + 1]
    /\ UNCHANGED <<run_pc, attempt, retry_delay, run_slept, dbVars, paintVars, botVars>>

\* infinity_polling returns.
PollingReturned ==
    /\ run_pc = "polling"
    /\ run_pc' = "returned"
    /\ UNCHANGED <<attempt, retry_delay, run_slept, run_updates, dbVars, paintVars, botVars>>

\* infinity_polling raises an Exception.
PollingCrashed ==
    /\ run_pc = "polling"
    /\ run_pc' = "except"
    /\ UNCHANGED <<attempt, retry_delay, run_slept, run_updates, dbVars, paintVars, botVars>>

\* break: the loop is left and run returns.
Break ==
    /\ run_pc = "returned"
    /\ run_pc' = "done"
    /\ UNCHANGED <<attempt, retry_delay, run_slept, run_updates, dbVars, paintVars, botVars>>

\* The except clause: time.sleep is entered when the attempt is not the
\* last; the exception is raised again when it is.
HandleCrash ==
    /\ run_pc = "except"
    /\ run_pc' = IF attempt < max_retries - 1 THEN "sleeping" ELSE "raised"
    /\ UNCHANGED <<attempt, retry_delay, run_slept, run_updates, dbVars, paintVars, botVars>>

\* time.sleep(retry_delay) returns, retry_delay is doubled and the loop
\* goes to its next attempt: one is left, as time.sleep is entered only
\* when attempt < max_retries - 1.
SleepReturned ==
    /\ run_pc = "sleeping"
    /\ run_slept' = Append(run_slept, retry_delay)
    /\ retry_delay' = next_retry_delay(retry_delay)
    /\ attempt' = attempt + 1
    /\ run_updates' = Append(run_updates, 0)
    /\ run_pc' = "polling"
    /\ UNCHANGED <<dbVars, paintVars, botVars>>

NextRun ==
    \/ RunStart \/ PollUpdate \/ PollingReturned \/ PollingCrashed
    \/ Break \/ HandleCrash \/ SleepReturned

SpecRun == Init /\ [][NextRun]_vars

\* The steps run takes by itself are taken: the break, the except clause,
\* and the return of time.sleep, which lasts retry_delay seconds.  Nothing
\* is assumed about infinity_polling, which may poll for ever.
SpecRunLive ==
    SpecRun /\ WF_vars(Break) /\ WF_vars(HandleCrash) /\ WF_vars(SleepReturned)

---------------------------------------------------------------------------
(* Claims about DatabaseManager *)

\* The rows of the table that the last find_similar_ads call had to choose from.
QueriedRows ==
    LET t == db_call.original_ad
    IN  {r \in car_ads : SimilarWhere(r, _extract_model(Some(t.title)),
                                      GetOr(t, "year", 0), GetOr(t, "price", 0), t.id)}

RanksBetter(a, b, price) ==
    LET sa == a.overall_score
        sb == b.overall_score
        da == Abs(Val(a.price) - price)
        db == Abs(Val(b.price) - price)
    IN  IF IsNone(sa) /\ IsNone(sb) THEN da < db
        ELSE IF IsNone(sa) THEN FALSE
        ELSE IF IsNone(sb) THEN TRUE
        ELSE Val(sa) > Val(sb) \/ (Val(sa) = Val(sb) /\ da < db)

---------------------------------------------------------------------------
(* Claims about PaintAnalyzer *)

\* The images of the last call that analyze_single_image was called for and
\* that were downloaded, decoded, accepted and scored.
AnalyzedImages == SelectSeq(paint_seen, LAMBDA img : img.kind = "ok")

\* The composite score of a picture.
CompositeOf(img) ==
    calculate_paint_score(img.color_uniformity, img.edge_quality,
                          img.texture_smoothness, img.brightness_level)

RECURSIVE SumComposite(_)
SumComposite(imgs) ==
    IF imgs = <<>> THEN 0 ELSE CompositeOf(imgs[1]) + SumComposite(Tail(imgs))

PaintCalled == paint_call.op = "analyze_paint_from_urls"

\* C3: when no image was analyzable (the list is empty or every processed image
\* failed) the result has score 0 and the entry 'error'; a result computed
\* from at least one analyzed image has no 'error' entry.
C3_InsufficientDataFlag ==
    PaintCalled =>
        LET r == Val(paint_ret)
        IN  IF AnalyzedImages = <<>>
            THEN "error" \in DOMAIN r /\ r.score = 0
            ELSE "error" \notin DOMAIN r

\* C3 witness: a non-empty list whose processed images all failed, each in a
\* different way, gave the flagged result.
C3_Witness ==
    /\ PaintCalled
    /\ Len(paint_seen) = 3
    /\ AnalyzedImages = <<>>
    /\ Cardinality({paint_seen[i].kind : i \in 1..3}) = 3
    /\ "error" \in DOMAIN Val(paint_ret)

\* C4: the score is the truncated arithmetic mean of the composite scores of
\* exactly the analyzed images (failed images are in neither the sum nor the
\* divisor), analyzed_images is their number, and the score is within 0..100.
C4_MeanOfAnalyzed ==
    (PaintCalled /\ AnalyzedImages # <<>>) =>
        LET r == Val(paint_ret)
        IN  /\ r.score = SumComposite(AnalyzedImages) \div Len(AnalyzedImages)
            /\ r.analyzed_images = Len(AnalyzedImages)
            /\ r.score \in 0..100

\* C4 witness: one of three processed images failed and the mean of the other
\* two, 99 and 4, is 51.5, returned as 51 over 2 images.
C4_Witness ==
    /\ PaintCalled
    /\ Len(paint_seen) = 3
    /\ Len(AnalyzedImages) = 2
    /\ SumComposite(AnalyzedImages) = 103
    /\ Val(paint_ret).score = 51
    /\ Val(paint_ret).analyzed_images = 2

---------------------------------------------------------------------------
(* Claims about SimpleAvitoBot *)

\* BotHandled: a handler has run.  BotFetched: it ran with the chat taking
\* every call and requests.get answered 200.  BotParsed: it ran with the chat
\* taking every call and its parser returned a listing.
BotHandled == bot_call.op # "none"
BotFetched == BotHandled /\ bot_call.response.status = 200 /\ bot_call.down = {}
BotParsed == BotHandled /\ ~IsNone(bot_ad_data) /\ bot_call.down = {}
Site == IF bot_call.op = "handle_avito_url" THEN "avito" ELSE "drom"

\* The sum of the three sub-scores of the analysis of the handled listing.
SumOfThree ==
    Val(bot_analysis).price_analysis.score + Val(bot_analysis).photo_analysis.score
    + Val(bot_analysis).year_analysis.score

\* The condition assessment of the handled listing has analyzed images.
ConditionAvailable ==
    /\ "error" \notin DOMAIN Val(bot_analysis).paint_analysis
    /\ Val(bot_analysis).paint_analysis.analyzed_images >= 1

\* The overall scores in which the condition score (0..100) takes part as a
\* fourth sub-score, on its own scale or on the 0..10 scale of the others.
MeansOfFour ==
    { PyRoundDiv(SumOfThree + Val(bot_analysis).paint_analysis.score, 4),
      PyRoundDiv(10 * SumOfThree + Val(bot_analysis).paint_analysis.score, 40) }

PriceSelectors(site) ==
    IF site = "avito"
    THEN avito_price_selectors \o <<AttrSel("script", "type", "=", "application/ld+json")>>
    ELSE drom_price_selectors

NoneSelected(soup, selectors) ==
    \A k \in 1..Len(selectors) : select(soup, selectors[k]) = <<>>

NoPriceText(text) ==
    /\ ~IsSubstring(Chars("\"price\":"), Lower(text))
    /\ ~IsSubstring(Chars("itemprop=\"price\""), Lower(text))
    /\ ~IsSubstring(Cyr("tsena"), Lower(text))

NoPriceMarker(site, page) ==
    NoneSelected(Soup(page), PriceSelectors(site)) /\ NoPriceText(ResponseText(page))

\* The six price bands: lowest and highest price (-1: no highest) and score.
PriceBands ==
    << <<0, 0, 3>>, <<1, 99999, 1>>, <<100000, 299999, 7>>, <<300000, 799999, 8>>,
       <<800000, 1999999, 6>>, <<2000000, -1, 5>> >>

BandsOf(price) ==
    {k \in 1..Len(PriceBands) :
        PriceBands[k][1] <= price /\ (PriceBands[k][2] = -1 \/ price <= PriceBands[k][2])}

\* C6: a page without any price marker gives price 0, the sub-score of the
\* 'unspecified' band, and an overall score that is the mean of all three
\* sub-scores; every non-negative price lies in exactly one of six bands,
\* whose score analyze_price gives.
C6_NoPriceMarker ==
    BotParsed =>
        /\ NoPriceMarker(Site, bot_call.response.page) =>
            /\ Val(bot_ad_data).price = 0
            /\ Val(bot_analysis).price_analysis.score = PriceBands[1][3]
            /\ Val(bot_analysis).price_analysis.text = "Tsena ne ukazana"
            /\ Val(bot_analysis).overall_score
                 = PyRoundDiv(PriceBands[1][3]
                              + analyze_photos(Val(bot_ad_data).image_count).score
                              + analyze_year(Val(bot_ad_data).year).score, 3)
        /\ Val(bot_ad_data).price >= 0 =>
            /\ Cardinality(BandsOf(Val(bot_ad_data).price)) = 1
            /\ \A k \in BandsOf(Val(bot_ad_data).price) :
                  Val(bot_analysis).price_analysis.score = PriceBands[k][3]

C6_Witness ==
    /\ BotParsed
    /\ NoPriceMarker(Site, bot_call.response.page)
    /\ Val(bot_ad_data).price = 0
    /\ Val(bot_ad_data).image_count >= 3
    /\ Val(bot_analysis).price_analysis.score = 3
    /\ Val(bot_analysis).overall_score = 6

\* Every selector through which some extractor of the site looks for a field.
FieldSelectors(site) ==
    <<AttrSel("meta", "property", "=", "og:title"), NoSel("title", "")>>
    \o (IF site = "avito"
        THEN avito_title_selectors \o avito_img_selectors
        ELSE drom_title_selectors \o drom_img_selectors
             \o drom_year_selectors \o drom_region_selectors)

NoMarkers(site, page) ==
    NoPriceMarker(site, page) /\ NoneSelected(Soup(page), FieldSelectors(site))

DefaultsButRegion(listing) ==
    /\ listing.title = Cyr("Neizvestnaya model")
    /\ listing.price = 0
    /\ listing.year = 2020
    /\ listing.images = <<>>
    /\ listing.image_count = 0

\* C7 as stated: extraction never raises, whatever the document, and a
\* document without any expected marker gives the default title, price 0,
\* the default year, the default region and no images.
C7_DefaultsWithoutMarkers ==
    /\ BotFetched => BotParsed
    /\ BotParsed /\ NoMarkers(Site, bot_call.response.page) =>
        /\ DefaultsButRegion(Val(bot_ad_data))
        /\ Val(bot_ad_data).region = Cyr("Neizvestno")

\* C7 amended: extraction never raises, and a document without any expected
\* marker gives the default title, price 0, the default year and no images;
\* its region is the default for Drom, and for Avito, which reads the region
\* from the first path segment of the link and not from the document, it is
\* the default when the link has no such segment and the region of that
\* segment when it has one.
C7_DefaultsWithoutMarkersOrSegment ==
    /\ BotFetched => BotParsed
    /\ BotParsed /\ NoMarkers(Site, bot_call.response.page) =>
        /\ DefaultsButRegion(Val(bot_ad_data))
        /\ Val(bot_ad_data).region =
              IF Site = "avito" /\ ~IsNone(search_region(bot_call.url))
              THEN MappedRegion(Val(search_region(bot_call.url)))
              ELSE Cyr("Neizvestno")

C7_Witness ==
    /\ BotParsed
    /\ Site = "avito"
    /\ IsNone(search_region(bot_call.url))
    /\ Soup(bot_call.response.page) # <<>>
    /\ NoMarkers(Site, bot_call.response.page)
    /\ DefaultsButRegion(Val(bot_ad_data))
    /\ Val(bot_ad_data).region = Cyr("Neizvestno")

\* The ways of writing the amount 1234567.
WrittenForms == {Chars(w) : w \in Written}

\* The price part of the page is one element that holds the amount in one of
\* its written forms: as its content attribute, as its text, or in its text
\* as the quoted value of "price" or between the word for price and the
\* rouble sign.
SuppliesWritten(price) ==
    /\ Len(price) = 1
    /\ \E w \in WrittenForms :
        \/ Attr(price[1], "content") = Some(w)
        \/ price[1].text = w
        \/ price[1].text = Chars("{\"price\":\"") \o w \o Chars("\"}")
        \/ price[1].text = Cyr("tsena ") \o w \o Chars(" #")

\* C8: an amount written "1 234 567", "1,234,567" or "1234567" is extracted
\* as 1234567, whichever price strategy supplies it.
C8_SameIntegerForWrittenForms ==
    BotParsed /\ SuppliesWritten(bot_call.response.page.price) =>
        Val(bot_ad_data).price = 1234567

\* The sources the image extractor of the site reads in the page: the
\* data-src and src attributes (Avito), the src attribute (Drom), of the
\* elements its selectors give.
ImageSources(site, page) ==
    LET visited == selected_images(Soup(page),
                                   IF site = "avito" THEN avito_img_selectors
                                   ELSE drom_img_selectors)
    IN  { Val(Attr(visited[i], "src")) :
            i \in {j \in 1..Len(visited) : ~IsNone(Attr(visited[j], "src"))} }
        \cup (IF site # "avito" THEN {}
              ELSE { Val(Attr(visited[i], "data-src")) :
                       i \in {j \in 1..Len(visited) : ~IsNone(Attr(visited[j], "data-src"))} })

\* The absolute URLs the page holds also in scheme-relative form.
HeldBothWays(site, page) ==
    { u \in ImageSources(site, page) :
        /\ StartsWith(u, Chars("https://"))
        /\ SubSeq(u, 7, Len(u)) \in ImageSources(site, page) }

\* C9: the image list holds no URL twice, and a page that holds an image
\* both as a scheme-relative and as an absolute URL gives exactly one entry
\* for it.
C9_NoDuplicateImages ==
    BotParsed =>
        LET images == Val(bot_ad_data).images
        IN  /\ \A i, j \in 1..Len(images) : images[i] = images[j] => i = j
            /\ \A u \in HeldBothWays(Site, bot_call.response.page) :
                  Cardinality({i \in 1..Len(images) : images[i] = u}) = 1

\* C10: the extracted price is never negative.
C10_PriceNonNegative == BotParsed => Val(bot_ad_data).price >= 0

\* C11: the vehicle age derived from the extracted year, which the age bands
\* and the recommendations use, is at least 1 year for every extracted year,
\* years after the year it is subtracted from included.
C11_AgeAtLeastOne == BotParsed => car_age(Val(bot_ad_data).year) >= 1

\* The price part of the page is one element whose content attribute or
\* text holds the amount 0.
MarkerHoldsZero(price) ==
    /\ Len(price) = 1
    /\ \/ Attr(price[1], "content") = Some(Chars("0"))
       \/ FindAllDigits(price[1].text) = <<Chars("0")>>

\* The handled page with its price part taken out.
WithoutPrice == [bot_call.response.page EXCEPT !.price = <<>>]

\* What the handler that ran gives on the same link and image hosts for the
\* page without its price part.
HandledWithoutPrice ==
    IF Site = "avito"
    THEN handle_avito_url(bot_call.url, Fetched(WithoutPrice), bot_call.net)
    ELSE handle_drom_url(bot_call.url, Fetched(WithoutPrice), bot_call.net)

\* C12: a price of 0 that the listing holds is told apart from a price no
\* strategy could determine: the page whose price marker holds 0 and the same
\* page without any price marker differ in the extracted price, in the price
\* analysis and in the report.
C12_ZeroPriceDistinguished ==
    (/\ BotParsed
     /\ MarkerHoldsZero(bot_call.response.page.price)
     /\ NoPriceMarker(Site, WithoutPrice)) =>
        /\ Val(HandledWithoutPrice.ad_data).price # Val(bot_ad_data).price
        /\ Val(HandledWithoutPrice.analysis).price_analysis
             # Val(bot_analysis).price_analysis
        /\ HandledWithoutPrice.chat[Len(bot_chat)].text # bot_chat[Len(bot_chat)].text

\* The raw document is unavailable: the request failed, the status is an
\* error status, or the document that arrived is empty.
InputUnavailable ==
    \/ bot_call.response.status # 200
    \/ ResponseText(bot_call.response.page) = <<>>

\* The texts the handler put into the chat.
ChatTexts == {bot_chat[i].text : i \in 1..Len(bot_chat)}

\* C13: when the raw document is unavailable the handler ends with an error
\* message and neither builds nor delivers a report, not even one made of the
\* default field values.
C13_NoReportWithoutDocument ==
    (BotHandled /\ InputUnavailable) =>
        /\ bot_chat[Len(bot_chat)].text.kind = "error"
        /\ \A text \in ChatTexts : text.kind # "report"
        /\ IsNone(bot_ad_data)
        /\ IsNone(bot_analysis)

---------------------------------------------------------------------------
(* Further claims about DatabaseManager *)

\* What find_similar_ads returns for the same target when the query runs and
\* no record of the corpus is comparable.
NothingComparable ==
    { r.rows : r \in find_similar_ads({}, db_call.original_ad, db_call.limit, TRUE) }

\* C14: a failed query or save does not raise, and what the caller gets
\* tells the failure from success: a failed find_similar_ads does not return
\* what a query without comparable records returns, and a failed save_car_ad
\* does not return what a completed save returns.
C14_StoreFailureFlagged ==
    /\ (db_call.op = "find_similar_ads" /\ db_err) => db_ret \notin NothingComparable
    /\ (db_call.op = "save_car_ad" /\ db_err) => db_ret # None

\* The record held under the identifier of the last save.
SavedRows == {r \in car_ads : r.id = db_call.ad_data.id}

\* The listing fields of a record are those of the listing ad_data.
HoldsListing(r, ad_data) ==
    /\ r.title = Get(ad_data, "title")
    /\ r.price = Get(ad_data, "price")
    /\ r.year = Get(ad_data, "year")
    /\ r.mileage = Get(ad_data, "mileage")
    /\ r.region = Get(ad_data, "region")
    /\ r.city = Get(ad_data, "city")
    /\ r.image_urls = GetOr(ad_data, "image_urls", <<>>)
    /\ r.overall_score = Get(ad_data, "overall_score")
    /\ r.is_active = Some(GetOr(ad_data, "is_active", TRUE))

\* C15: save_car_ad is an upsert keyed by the identifier: the store never
\* holds two records under one identifier; a completed save for a new
\* identifier adds one record, a completed save for an identifier the store
\* holds adds none, and either way the record under that identifier then
\* holds the listing fields of that save, the other records being left alone.
C15_UpsertByIdentifier ==
    [][ /\ \A a, b \in car_ads' : a.id = b.id => a = b
        /\ (db_call.op = "none" /\ db_call'.op = "save_car_ad" /\ ~db_err') =>
             LET saved == db_call'.ad_data
                 held == \E r \in car_ads : r.id = saved.id
             IN  /\ Cardinality(car_ads') = Cardinality(car_ads) + (IF held THEN 0 ELSE 1)
                 /\ \E r \in car_ads' : r.id = saved.id /\ HoldsListing(r, saved)
                 /\ {r \in car_ads' : r.id # saved.id} = {r \in car_ads : r.id # saved.id}
      ]_vars

\* C15 witness: a completed save replaced the listing fields of a record that
\* was inserted from another listing (the record keeps the link it was
\* inserted with), next to the records of other identifiers.
C15_Witness ==
    /\ db_call.op = "save_car_ad" /\ ~db_err
    /\ Cardinality(car_ads) = MaxAds
    /\ \E r \in SavedRows :
          /\ r.url # db_call.ad_data.url
          /\ HoldsListing(r, db_call.ad_data)
          /\ r.mileage = Some(90000)

\* The title _extract_model was called on, as a text.
KeyTitle == IF IsNone(db_call.title) THEN <<>> ELSE Val(db_call.title)

\* The places of the known-model list whose entry occurs in the title when
\* case is ignored.
KnownIn(title) == {i \in 1..Len(models) : IsSubstring(Lower(models[i]), Lower(title))}

\* C16: the model key is the first entry of the known-model list that occurs
\* in the title, case ignored; without one it is the second
\* whitespace-delimited token of the title; it is empty when the title is
\* empty or has no known model and fewer than two tokens.
C16_ModelKey ==
    db_call.op = "_extract_model" =>
        IF KnownIn(KeyTitle) # {}
        THEN \E i \in KnownIn(KeyTitle) :
                /\ db_ret = models[i]
                /\ \A j \in KnownIn(KeyTitle) : i <= j
        ELSE IF Len(Split(KeyTitle)) >= 2 THEN db_ret = Split(KeyTitle)[2]
        ELSE db_ret = <<>>

\* C16 witness: the title holds two known models, and the key is the one
\* that stands earlier in the list although it stands later in the title.
C16_Witness ==
    /\ db_call.op = "_extract_model"
    /\ KeyTitle = Chars("polo Golf")
    /\ db_ret = Chars("golf")

\* The value a strategy yields from the content attribute of an element: the
\* integer it writes, when it is not empty and numeric.
ContentValue(content) ==
    IF ~IsNone(content) /\ IsDigitStr(Val(content)) /\ ~IntOfStr(Val(content)).exc
    THEN Some(IntOfStr(Val(content)).val) ELSE None

\* The values the structural strategies yield for the first element of a
\* selector: its content attribute, then its text.
ElementValues(element) ==
    IF IsNone(element) THEN <<None, None>>
    ELSE <<ContentValue(Attr(Val(element), "content")), price_from_text(Val(element))>>

\* The value the raw-text strategy yields for what a pattern found: the
\* integer written by the group once its spaces are taken out.
PatternValue(group) ==
    IF ~IsNone(group) /\ ~IntOfStr(RemoveSpaces(Val(group))).exc
    THEN Some(IntOfStr(RemoveSpaces(Val(group))).val)
    ELSE None

\* What the strategies yield on the handled page, in the order stated:
\* the selectors of the site in list order, the structured metadata, the
\* raw-text patterns of the site.
StrategyValues(site, soup, text) ==
    LET selectors == IF site = "avito" THEN avito_price_selectors ELSE drom_price_selectors
    IN  Join([k \in 1..Len(selectors) |-> ElementValues(select_one(soup, selectors[k]))])
        \o <<avito_price_from_json_ld(soup)>>
        \o <<PatternValue(search_price_quoted(text)), PatternValue(search_price_bare(text)),
              PatternValue(IF site = "avito" THEN search_itemprop_content(text)
                           ELSE search_tsena(text))>>

\* The value of the first strategy that yields one; 0 when none does.
FirstValue(values) ==
    IF \A k \in 1..Len(values) : IsNone(values[k]) THEN 0
    ELSE Val(values[Min({k \in 1..Len(values) : ~IsNone(values[k])})])

\* C17: the extracted price is the value of the first strategy, in the order
\* selectors of the list (content attribute before text), structured
\* metadata, raw-text patterns, that yields a numeric value; a later strategy
\* is used only when every earlier one yielded none.
C17_FirstStrategyWins ==
    BotParsed =>
        Val(bot_ad_data).price
          = FirstValue(StrategyValues(Site, Soup(bot_call.response.page),
                                      ResponseText(bot_call.response.page)))

\* The sources the image extractor of the site reads from the elements its
\* selectors give.
SourcesRead(site, page) ==
    LET visited == selected_images(Soup(page),
                                   IF site = "avito" THEN avito_img_selectors
                                   ELSE drom_img_selectors)
        src == [i \in 1..Len(visited) |->
                  IF site = "avito" THEN avito_img_src(visited[i])
                  ELSE drom_img_src(visited[i])]
    IN  { Val(src[i]) : i \in {j \in 1..Len(visited) : ~IsNone(src[j])} }

IsAbsolute(u) == StartsWith(u, Chars("http://")) \/ StartsWith(u, Chars("https://"))

\* C18: every scheme-relative image URL the extractor finds in the document
\* is in the image list with 'https:' in front, and every entry of the image
\* list is an absolute URL.
C18_SchemeRelativeRewritten ==
    BotParsed =>
        LET images == Val(bot_ad_data).images
        IN  /\ \A u \in SourcesRead(Site, bot_call.response.page) :
                  StartsWith(u, Chars("//")) =>
                      \E i \in 1..Len(images) : images[i] = Chars("https:") \o u
            /\ \A i \in 1..Len(images) : IsAbsolute(images[i])

\* The selectors of the image extractor of the site.
ImageSelectors(site) == IF site = "avito" THEN avito_img_selectors ELSE drom_img_selectors

\* How many elements of the page each selector of the list gives.
Matched(site, page) ==
    [k \in 1..Len(ImageSelectors(site)) |-> Len(select(Soup(page), ImageSelectors(site)[k]))]

\* The sum over the selectors of the elements given, 10 at most for each.
RECURSIVE TenOfEach(_)
TenOfEach(matched) ==
    IF matched = <<>> THEN 0
    ELSE (IF Head(matched) < 10 THEN Head(matched) ELSE 10) + TenOfEach(Tail(matched))

\* C19: the image list of a listing never exceeds one fixed maximum, however
\* many elements the selectors give: at most ten entries come from each of
\* the four selectors, so the list, and image_count with it, never exceeds 40.
C19_ImageListCapped ==
    BotParsed =>
        /\ Val(bot_ad_data).image_count = Len(Val(bot_ad_data).images)
        /\ Len(Val(bot_ad_data).images) <= TenOfEach(Matched(Site, bot_call.response.page))
        /\ Len(Val(bot_ad_data).images) <= 40

\* C19 witness: one selector gave twelve elements of which ten were taken,
\* another selector gave one more, and the list holds eleven entries.
C19_Witness ==
    /\ BotParsed
    /\ \E k \in 1..4 : Matched(Site, bot_call.response.page)[k] = 12
    /\ TenOfEach(Matched(Site, bot_call.response.page)) = 11
    /\ Val(bot_ad_data).image_count = 11

---------------------------------------------------------------------------
(* Further claims about PaintAnalyzer *)

\* The threshold table: the label of an integer score.
LabelOf(score) ==
    IF score >= 80 THEN "otlichnoe"
    ELSE IF score >= 60 THEN "khoroshee"
    ELSE IF score >= 40 THEN "udovletvoritelnoe"
    ELSE "trebuet vnimaniya"

\* C20: the condition label of an aggregate result is the one the threshold
\* table (at least 80 excellent, at least 60 good, at least 40 fair, lower
\* needs attention) gives for the integer score of the same result.
C20_LabelAgreesWithScore ==
    (PaintCalled /\ "condition" \in DOMAIN Val(paint_ret)) =>
        Val(paint_ret).condition = LabelOf(Val(paint_ret).score)

\* C20 witness: three analyzed images average 59.67; the score is 59 and the
\* label is 'fair'.
C20_Witness ==
    /\ PaintCalled
    /\ Len(AnalyzedImages) = 3
    /\ SumComposite(AnalyzedImages) = 179
    /\ Val(paint_ret).score = 59
    /\ Val(paint_ret).condition = "udovletvoritelnoe"

\* The places of the processed images that failed.
FailedAt == {i \in 1..Len(paint_seen) : paint_seen[i].kind # "ok"}

\* C21: a failing image, of whatever kind and at whatever place, does not end
\* the analysis of the others: the result for the list is the result for the
\* processed images that succeeded, in their order, those after a failing
\* image included, and it is the flagged result only when none succeeded.
C21_FailuresSkipped ==
    PaintCalled =>
        /\ AnalyzedImages # <<>> =>
             /\ Val(paint_ret) = analyze_paint_from_urls(AnalyzedImages)
             /\ Val(paint_ret).analyzed_images = Len(paint_seen) - Cardinality(FailedAt)
        /\ "error" \in DOMAIN Val(paint_ret) => AnalyzedImages = <<>>

\* C21 witness: the first two processed images failed, one on download and
\* one in the feature computation, and the third alone made the result.
C21_Witness ==
    /\ PaintCalled
    /\ Len(paint_seen) = 3
    /\ paint_seen[1].kind = "request_error"
    /\ paint_seen[2].kind = "feature_error"
    /\ paint_seen[3].kind = "ok"
    /\ Val(paint_ret).analyzed_images = 1
    /\ Val(paint_ret).score = CompositeOf(paint_seen[3])

\* C22: the condition analysis processes at most three images, whatever the
\* length of the list: the first three in list order; no later image is
\* downloaded or analyzed, and the result is the one the first three alone
\* give, also when every one of them fails.
C22_FirstThreeOnly ==
    PaintCalled =>
        /\ Len(paint_seen) <= 3
        /\ Len(paint_seen) = IF Len(paint_call.image_urls) < 3
                              THEN Len(paint_call.image_urls) ELSE 3
        /\ \A i \in 1..Len(paint_seen) : paint_seen[i] = paint_call.image_urls[i]
        /\ Val(paint_ret) = analyze_paint_from_urls(paint_seen)

\* C22 witness: the list holds four images, the first three fail and the
\* fourth would be analyzed; the result is the flagged one.
C22_Witness ==
    /\ PaintCalled
    /\ Len(paint_call.image_urls) = 4
    /\ \A i \in 1..3 : paint_call.image_urls[i].kind # "ok"
    /\ paint_call.image_urls[4].kind = "ok"
    /\ "error" \in DOMAIN Val(paint_ret)
    /\ Val(paint_ret).score = 0

\* The calls of the chat that delivered the final report or an error text.
TerminalDelivered ==
    {i \in 1..Len(bot_chat) :
        bot_chat[i].ok /\ bot_chat[i].text.kind \in {"report", "error"}}

\* The calls of the chat that carried an error text, delivered or not.
ErrorCalls == {i \in 1..Len(bot_chat) : bot_chat[i].text.kind = "error"}

\* The report is the sixth call, after the opening message and the stages
\* fetch, parameters, paint and report formation, each of them delivered.
ReportAfterStages(i) ==
    /\ i = 6
    /\ \A j \in 1..5 : bot_chat[j].ok /\ bot_chat[j].text.kind = "status"
    /\ bot_chat[1].api = "send_message"
    /\ \A j \in 2..6 : bot_chat[j].api = "edit_message_text"
    /\ bot_chat[2].text.stage = <<"Poluchayu dannye">>
    /\ bot_chat[3].text.stage = <<"Analiziruyu parametry">>
    /\ bot_chat[4].text.stage = <<"Analiziruyu LKP po foto">>
    /\ bot_chat[5].text.stage = <<"Formiruyu otchet">>

\* The error text goes out by an edit of the status message, and by a new
\* message when that edit raised or the status message was never created;
\* nothing follows it.
ErrorByEditThenSend ==
    ErrorCalls # {} =>
        LET e == Min(ErrorCalls)
            created == bot_chat[1].ok
        IN  /\ \A j \in e..Len(bot_chat) :
                    bot_chat[j].text = bot_chat[e].text
            /\ bot_chat[e].api = IF created THEN "edit_message_text" ELSE "send_message"
            /\ Len(bot_chat) = IF created /\ ~bot_chat[e].ok THEN e + 1 ELSE e
            /\ bot_chat[Len(bot_chat)].api =
                   IF created /\ bot_chat[e].ok THEN "edit_message_text" ELSE "send_message"

\* C23: a handler ends with exactly one terminal message, the last call of
\* its chat: the report, delivered after the status stages fetch, parameters,
\* paint and report formation in that order, or one error text; the error
\* text is delivered by editing the status message, and by a new message
\* when that edit fails or the status message was never created; no report
\* is delivered once an error text was.
C23_OneTerminalMessage ==
    BotHandled =>
        /\ TerminalDelivered = {Len(bot_chat)}
        /\ \A i \in TerminalDelivered :
               bot_chat[i].text.kind = "report" => ReportAfterStages(i)
        /\ ErrorByEditThenSend
        /\ \A i \in ErrorCalls : \A j \in TerminalDelivered :
               bot_chat[j].text.kind = "report" => j < i

\* The polling attempts run has started.
Attempts == Len(run_updates)

\* The states of run: at most three attempts; the waits are 10 and then 20
\* seconds, one before each attempt after the first; time.sleep is entered
\* only when an attempt is left; the exception leaves run after the third
\* attempt and two waits, with no third wait.
RunWithinRetries ==
    /\ Attempts <= 3
    /\ Len(run_slept) <= 2
    /\ \A i \in 1..Len(run_slept) : run_slept[i] = IF i = 1 THEN 10 ELSE 20
    /\ run_pc \in {"polling", "returned", "except"} => Len(run_slept) = Attempts - 1
    /\ run_pc = "sleeping" => Attempts < 3 /\ Len(run_slept) = Attempts - 1
    /\ run_pc = "raised" => Attempts = 3 /\ run_slept = <<10, 20>>
    /\ run_pc = "done" => Attempts \in 1..3 /\ Len(run_slept) = Attempts - 1

\* The steps of run: after a return of infinity_polling the only step is the
\* return of run, with no wait and no further attempt; a crash of the third
\* attempt is followed by the exception leaving run, with no wait; nothing
\* follows the end of run.
RunStepsAsSpecified ==
    /\ run_pc = "returned" =>
           run_pc' = "done" /\ run_slept' = run_slept /\ run_updates' = run_updates
    /\ (run_pc = "except" /\ Attempts = 3) =>
           run_pc' = "raised" /\ run_slept' = run_slept /\ run_updates' = run_updates
    /\ (run_pc = "except" /\ Attempts < 3) => run_pc' = "sleeping"
    /\ run_pc = "sleeping" =>
           /\ run_pc' = "polling"
           /\ run_slept' = Append(run_slept, IF Attempts = 1 THEN 10 ELSE 20)
           /\ Len(run_updates') = Attempts + 1
    /\ run_pc \in {"done", "raised"} => FALSE

\* C24: run makes at most three polling attempts; it returns without a
\* retry as soon as an attempt returns; after a crashed attempt that is not
\* the last it waits and retries, 10 and then 20 seconds; after the third
\* crashed attempt the exception leaves run with no further wait; and run
\* ends once polling has returned or has crashed three times.
C24_RunRetriesAndTerminates ==
    /\ []RunWithinRetries
    /\ [][RunStepsAsSpecified]_vars
    /\ (run_pc = "returned") ~> (run_pc = "done")
    /\ (run_pc = "except" /\ Attempts = 3) ~> (run_pc = "raised")
    /\ \A n \in 1..2 :
          (run_pc = "except" /\ Attempts = n) ~> (run_pc = "polling" /\ Attempts = n + 1)

\* C24 witness: three attempts crashed after taking updates, run waited 10
\* and 20 seconds and the exception left it.
C24_Witness ==
    /\ run_pc = "raised"
    /\ Attempts = 3
    /\ run_slept = <<10, 20>>
    /\ retry_delay = 40
    /\ run_updates[3] > 0

====
